---- MODULE Spec2Model ----
(***************************************************************************)
(* The weighted multi-bucket admission controller of ccx-api's binance     *)
(* client (rate_limiter.rs): a registry of quota buckets, one dispatcher   *)
(* task draining an unbounded queue of admission messages, and the callers *)
(* whose tasks enqueue a message, await the reply and then do their        *)
(* network call.                                                           *)
(*                                                                         *)
(* Time is the value Instant::now() returns, counted in ticks.  `clock` is  *)
(* the latest reading; every action that calls Instant::now() draws its    *)
(* reading from Readings, any value from the latest reading on, so two     *)
(* calls may return the same value or values any distance apart.           *)
(***************************************************************************)
EXTENDS Integers, Sequences, FiniteSets, TLC

VARIABLES
    clock,      \* the latest reading Instant::now() returned
    horizon,    \* the clock of this run: its largest reading (last) and the
                \* most it advances from one reading to the next (step)
    buckets,    \* RateLimiter.buckets: name -> RateLimiterBucket
    queue,      \* the mpsc channel queue_tx/queue_rx: messages not yet received
    costs,      \* per request: TaskBuilder.costs, the cost vector frozen by send()
    task,       \* per request: where the caller's Task future stands
    reply,      \* per request: what the oneshot channel task_tx/task_rx holds
    disp,       \* the dispatcher task spawned by recv(): its position and locals
    submitted,  \* history: requests in the order their message was enqueued
    started,    \* history: requests in the order the dispatcher received them
    answered,   \* history: requests in the order the dispatcher replied to them
    obs,        \* history: what timeout() saw of each bucket for the current message
    commits,    \* history: per request, how many bucket amounts set_costs raised
    bucket_calls, \* history: the bucket() calls made on the RateLimiterBuilder
    cost_calls, \* history: per request, the cost() calls made on its TaskBuilder
    meta,       \* history: per request, what its metadata() calls returned
    api_calls,  \* history: per request, the API method that built it and its argument
    updater,    \* the OrderBookUpdater: Preparing with its buffer, or Ready with its state
    ob_call,    \* history: the last call made on the updater, its argument and result,
                \* and the diffs it applied to a book it then gave up
    ob_hist     \* history: whether an init() returned Ok, the snapshot's id, the diffs applied

vars == <<clock, horizon, buckets, queue, costs, task, reply, disp,
          submitted, started, answered, obs, commits,
          bucket_calls, cost_calls, meta, api_calls,
          updater, ob_call, ob_hist>>

\* The order book of the mexc crate and what was done to it.
book == <<updater, ob_call, ob_hist>>

\* The admission controller and its callers.
limiter == <<clock, horizon, buckets, queue, costs, task, reply, disp,
             submitted, started, answered, obs, commits,
             bucket_calls, cost_calls, meta, api_calls>>

\* What the builders and metadata() leave behind.
calls == <<bucket_calls, cost_calls, meta, api_calls, book>>

hist == <<horizon, submitted, started, answered, obs, commits, calls>>

-----------------------------------------------------------------------------
(* Bounds of the model *)

NReq == 2        \* requests (tasks) built in one run
MaxTime == 5     \* the largest reading of the clock under Spec
MaxCost == 2     \* largest weight a cost() call declares

(* Configuration of the registry the runs start from (bucket() calls) *)
IntervalA == 3   \* bucket A: interval, in ticks
LimitA == 1      \* bucket A: limit
DelayB == 2      \* bucket B: delay, in ticks
IntervalB == 2   \* bucket B: interval
LimitB == 1      \* bucket B: limit

(* The concurrent scenario: NConc requests on one bucket of limit LimitConc *)
NConc == 3
LimitConc == 3

(* The end-to-end scenario, in seconds: one bucket of interval 1 and limit 1,
   8 requests of cost 1, which are to take 7 seconds *)
E2E == [interval |-> 1, limit |-> 1, requests |-> 8, cost |-> 1, seconds |-> 7]
E2EHorizon == 9       \* the largest reading of the clock, in seconds

(* The delay scenario of tests::test_rate_limiter_delay, in seconds *)
TestDelay == 10       \* line 392: delay(Duration::from_secs(10))
TestInterval == 10    \* line 393: interval(Duration::from_secs(10))
TestLimit == 1        \* line 394: limit(1)
TestRequests == 2     \* line 399: for _i in 1..=2
TestCost == 1         \* line 402: cost(.., 1)
TestSeconds == 20     \* line 409: >= Duration::from_secs(20)
DelayHorizon == 22    \* the largest reading of the clock, in seconds

Reqs == DOMAIN task
NoReq == 0

-----------------------------------------------------------------------------
(* Helpers *)

MaxOf(S) == IF S = {} THEN 0 ELSE CHOOSE x \in S : \A y \in S : y <= x

\* The orders in which a HashMap with key set S may be iterated.
Perms(S) ==
    { s \in [1..Cardinality(S) -> S] :
        \A i, j \in 1..Cardinality(S) : i # j => s[i] # s[j] }

IsPrefix(s, t) == Len(s) <= Len(t) /\ \A i \in 1..Len(s) : s[i] = t[i]

InSeq(x, s) == \E i \in 1..Len(s) : s[i] = x

\* Instant::duration_since: saturates to zero when `earlier` is the later one.
DurationSince(later, earlier) == IF later > earlier THEN later - earlier ELSE 0

-----------------------------------------------------------------------------
(* RateLimiterBucket and the registry *)

\* RateLimiterBucket::default() followed by delay(), interval() and limit(),
\* all called at reading 0.
Bucket(delay, interval, limit) ==
    [ time_instant |-> 0, delay |-> 0 + delay, interval |-> interval,
      limit |-> limit, amount |-> 0 ]

\* RateLimiterBuilder::bucket() twice, then start().
Registry ==
    ("A" :> Bucket(0, IntervalA, LimitA)) @@
    ("B" :> Bucket(DelayB, IntervalB, LimitB))

\* The names callers pass to cost(): the registry's and one it does not hold.
CostNames == {"A", "B", "X"}

NoCosts == [n \in {} |-> 0]

\* The cost vectors a caller may declare: one cost() call, of any weight on
\* A, or two of them.
CostVecs ==
    { ("A" :> w) : w \in 1..MaxCost } \cup { ("B" :> 1), ("X" :> 1) } \cup
    { ("A" :> 1) @@ ("B" :> 1), ("A" :> 1) @@ ("X" :> 1) }

\* reset_outdated, line 197-198: is the window outdated at reading `now`?
\* Mutant: a window is taken for outdated as soon as its interval has elapsed.
OutdatedAtEnd(b, now) == DurationSince(now, b.time_instant) >= b.interval

Outdated(b, now) == DurationSince(now, b.time_instant) > b.interval

\* Mutant: rolling the window keeps the amount.
RolledKeepsAmount(b, now) == [b EXCEPT !.time_instant = now]

\* Mutant: a window roll also moves the activation time to the reading.
RolledMovesDelay(b, now) ==
    [b EXCEPT !.time_instant = now, !.amount = 0, !.delay = now]

\* reset_outdated, line 199-200: the window rolls at reading `now`.
Rolled(b, now) == [b EXCEPT !.time_instant = now, !.amount = 0]

\* Mutant: the amount alone is compared with the limit.
OverLimitIgnoresCost(b, cost) == b.amount > b.limit

\* timeout(), line 124-126: does amount + cost exceed the limit?
OverLimit(b, cost) == b.amount + cost > b.limit

\* Mutant: the whole interval is waited, whatever has elapsed of the window.
BucketTimeoutWhole(b, now) == b.interval

\* timeout(), line 127-128: interval - elapsed (the subtraction panics when
\* elapsed > interval: Duration's Sub is checked).
BucketTimeout(b, now) == b.interval - DurationSince(now, b.time_instant)

\* timeout(), line 118-119: a bucket under delay sets the timeout.
DelayTimeout(timeout, delay) == delay

\* timeout(), line 130-132: a bucket over its limit raises the timeout.
LimitTimeout(timeout, bucket_timeout) ==
    IF bucket_timeout > timeout THEN bucket_timeout ELSE timeout

\* set_costs(), line 153.
\* Mutant: set_costs assigns the cost (`=` for `+=` at line 153).
AddCostAssigns(b, cost) == [b EXCEPT !.amount = cost]

AddCost(b, cost) == [b EXCEPT !.amount = b.amount + cost]

-----------------------------------------------------------------------------
(* The order book of the mexc crate (util/order_book.rs): an updater that
   buffers the diff events of the stream until the snapshot arrives, and
   the book the snapshot and the diffs build *)

\* Option<T>: None is the empty sequence, Some(x) the sequence of x alone.
None == << >>
Some(x) == <<x>>
OptionOf(S) == {None} \cup { Some(x) : x \in S }

\* The update ids of diff events run from 1 to MaxId, the last_update_id of
\* a snapshot from 0 to MaxSnapshotId; at most MaxBuffer diffs are buffered
\* and at most MaxApplied diffs are applied to one book.
MaxId == 3
MaxSnapshotId == 1
MaxBuffer == 2
MaxApplied == 3

\* line 38-47: Bid and Ask, a price level.
Level(price, qty) == [price |-> price, qty |-> qty]

\* What a diff event does to the two sides: a new quantity for ask 1 and
\* the removal of bid 1, or the removal of ask 1 and a new bid 2.
Changes ==
    { [asks |-> <<Level(1, 2)>>, bids |-> <<Level(1, 0)>>],
      [asks |-> <<Level(1, 0)>>, bids |-> <<Level(2, 1)>>] }

\* OrderBookDiffEvent: any pair of ids, in order or not.
Diffs ==
    { [first_update_id |-> f, final_update_id |-> l,
       asks |-> c.asks, bids |-> c.bids] :
          f \in 1..MaxId, l \in 1..MaxId, c \in Changes }

\* line 31-35: OrderBook, the snapshot: an empty book, or one with two
\* entries for ask 1 (the later one wins) and bid 1.
Snapshots ==
    { [last_update_id |-> id, asks |-> b.asks, bids |-> b.bids] :
          id \in 0..MaxSnapshotId,
          b \in { [asks |-> << >>, bids |-> << >>],
                  [asks |-> <<Level(1, 2), Level(1, 1)>>,
                   bids |-> <<Level(1, 1)>>] } }

\* BTreeMap::insert and BTreeMap::remove on a map price -> qty.
Insert(m, price, qty) ==
    [p \in DOMAIN m \cup {price} |-> IF p = price THEN qty ELSE m[p]]
Remove(m, price) == [p \in DOMAIN m \ {price} |-> m[p]]

\* line 98-99: iter().map(|v| (v.price, v.qty)).collect(): every entry is
\* inserted, a later entry for the same price replaces the earlier one.
RECURSIVE Collect(_)
Collect(levels) ==
    IF levels = << >> THEN << >>
    ELSE LET front == Collect(SubSeq(levels, 1, Len(levels) - 1))
             v == levels[Len(levels)]
         IN Insert(front, v.price, v.qty)

\* line 94-101: OrderBookState::new(snapshot).
OrderBookStateNew(snapshot) ==
    [ last_update_id |-> snapshot.last_update_id,
      dirty |-> TRUE,
      asks |-> Collect(snapshot.asks),
      bids |-> Collect(snapshot.bids) ]

\* line 244-250 and 251-257: a zero quantity removes the level, any other
\* quantity is inserted.
RECURSIVE ApplyLevels(_, _)
ApplyLevels(m, levels) ==
    IF levels = << >> THEN m
    ELSE LET e == Head(levels) IN
         ApplyLevels(IF e.qty = 0 THEN Remove(m, e.price)
                                  ELSE Insert(m, e.price, e.qty),
                     Tail(levels))

\* line 242-258: the diff is applied.  `applied` lists the ids of the diffs
\* a call applied.
ApplyDiff(self, diff) ==
    [ self |-> [self EXCEPT !.last_update_id = diff.final_update_id,
                            !.asks = ApplyLevels(@, diff.asks),
                            !.bids = ApplyLevels(@, diff.bids)],
      result |-> "ok",
      applied |-> << <<diff.first_update_id, diff.final_update_id>> >> ]

\* line 225: return Ok(()) without a change.
Ignored(self) == [self |-> self, result |-> "ok", applied |-> << >>]

\* line 228-231 and 236-239: Err(..)? returns the error.
Rejected(self) == [self |-> self, result |-> "err", applied |-> << >>]

\* Mutant: an old diff is not dropped while the state is dirty.
updateKeepsOld(self, diff) ==
    LET next_id == self.last_update_id + 1 IN
    IF self.dirty
    THEN IF diff.first_update_id > next_id
         THEN Rejected(self)
         ELSE ApplyDiff([self EXCEPT !.dirty = FALSE], diff)
    ELSE IF diff.first_update_id # next_id
         THEN Rejected(self)
         ELSE ApplyDiff(self, diff)

\* Mutant: a diff that starts before next_id is accepted once the state is
\* clean.
updateAllowsOverlap(self, diff) ==
    LET next_id == self.last_update_id + 1 IN
    IF self.dirty
    THEN IF diff.final_update_id < next_id
         THEN Ignored(self)
         ELSE IF diff.first_update_id > next_id
              THEN Rejected(self)
              ELSE ApplyDiff([self EXCEPT !.dirty = FALSE], diff)
    ELSE IF diff.first_update_id > next_id
         THEN Rejected(self)
         ELSE ApplyDiff(self, diff)

\* Mutant: the dirty flag is cleared before first_update_id is checked.
updateClearsDirtyFirst(self, diff) ==
    LET next_id == self.last_update_id + 1 IN
    IF self.dirty
    THEN IF diff.final_update_id < next_id
         THEN Ignored(self)
         ELSE IF diff.first_update_id > next_id
              THEN Rejected([self EXCEPT !.dirty = FALSE])
              ELSE ApplyDiff([self EXCEPT !.dirty = FALSE], diff)
    ELSE IF diff.first_update_id # next_id
         THEN Rejected(self)
         ELSE ApplyDiff(self, diff)

\* line 211-259: OrderBookState::update(): the new state, the result and
\* the diffs applied.
update(self, diff) ==
    LET next_id == self.last_update_id + 1 IN
    IF self.dirty
    THEN IF diff.final_update_id < next_id
         THEN Ignored(self)
         ELSE IF diff.first_update_id > next_id
              THEN Rejected(self)
              ELSE ApplyDiff([self EXCEPT !.dirty = FALSE], diff)
    ELSE IF diff.first_update_id # next_id
         THEN Rejected(self)
         ELSE ApplyDiff(self, diff)

\* line 12-15: the two variants of OrderBookUpdater.
Preparing(buffer) == [tag |-> "Preparing", buffer |-> buffer, state |-> None]
Ready(st) == [tag |-> "Ready", buffer |-> << >>, state |-> Some(st)]

\* line 50-52: OrderBookUpdater::new().
OrderBookUpdaterNew == Preparing(<< >>)

\* line 54-59: OrderBookUpdater::state().
state(self) == IF self.tag = "Preparing" THEN None ELSE self.state

\* Mutant: an error of update() throws the updater back to Preparing.
push_diffFallsBack(self, upd) ==
    IF self.tag = "Preparing"
    THEN [self |-> Preparing(Append(self.buffer, upd)),
          result |-> "ok", applied |-> << >>]
    ELSE LET u == update(self.state[1], upd) IN
         [self |-> IF u.result = "err" THEN Preparing(<< >>) ELSE Ready(u.self),
          result |-> u.result, applied |-> u.applied]

\* line 61-67: OrderBookUpdater::push_diff().
push_diff(self, upd) ==
    IF self.tag = "Preparing"
    THEN [self |-> Preparing(Append(self.buffer, upd)),
          result |-> "ok", applied |-> << >>]
    ELSE LET u == update(self.state[1], upd) IN
         [self |-> Ready(u.self), result |-> u.result, applied |-> u.applied]

\* Mutant: the diffs not yet replayed stay in the buffer when one fails.
RECURSIVE DrainKeepsRest(_, _)
DrainKeepsRest(st, buffer) ==
    IF buffer = << >>
    THEN [state |-> st, result |-> "ok", applied |-> << >>, buffer |-> << >>]
    ELSE LET u == update(st, Head(buffer)) IN
         IF u.result = "err"
         THEN [state |-> u.self, result |-> "err", applied |-> << >>,
               buffer |-> Tail(buffer)]
         ELSE LET rest == DrainKeepsRest(u.self, Tail(buffer)) IN
              [rest EXCEPT !.applied = u.applied \o @]

\* Mutant: the buffer is replayed from its newest diff.
RECURSIVE DrainNewestFirst(_, _)
DrainNewestFirst(st, buffer) ==
    IF buffer = << >>
    THEN [state |-> st, result |-> "ok", applied |-> << >>, buffer |-> << >>]
    ELSE LET u == update(st, buffer[Len(buffer)]) IN
         IF u.result = "err"
         THEN [state |-> u.self, result |-> "err", applied |-> << >>,
               buffer |-> << >>]
         ELSE LET rest == DrainNewestFirst(u.self,
                                           SubSeq(buffer, 1, Len(buffer) - 1))
              IN [rest EXCEPT !.applied = u.applied \o @]

\* line 73-75: `for diff in buffer.drain(..) { state.update(diff)?; }`: the
\* diffs are replayed oldest first up to the first error; the Drain takes
\* every element out of the buffer, also when it is dropped early.
RECURSIVE Drain(_, _)
Drain(st, buffer) ==
    IF buffer = << >>
    THEN [state |-> st, result |-> "ok", applied |-> << >>, buffer |-> << >>]
    ELSE LET u == update(st, Head(buffer)) IN
         IF u.result = "err"
         THEN [state |-> u.self, result |-> "err", applied |-> << >>,
               buffer |-> << >>]
         ELSE LET rest == Drain(u.self, Tail(buffer)) IN
              [rest EXCEPT !.applied = u.applied \o @]

\* Mutant: init() on a Ready updater starts over from the new snapshot.
initReplaces(self, snapshot) ==
    IF self.tag = "Preparing"
    THEN LET d == Drain(OrderBookStateNew(snapshot), self.buffer) IN
         IF d.result = "ok"
         THEN [self |-> Ready(d.state), result |-> "ok", applied |-> d.applied,
               discarded |-> << >>]
         ELSE [self |-> Preparing(d.buffer), result |-> "err",
               applied |-> << >>, discarded |-> d.applied]
    ELSE [self |-> Ready(OrderBookStateNew(snapshot)), result |-> "ok",
          applied |-> << >>, discarded |-> << >>]

\* line 69-84: OrderBookUpdater::init(): the new updater, the result, the
\* diffs applied to the book of the updater and the diffs applied to a book
\* that was given up.
init(self, snapshot) ==
    IF self.tag = "Preparing"
    THEN LET d == Drain(OrderBookStateNew(snapshot), self.buffer) IN
         IF d.result = "ok"
         THEN [self |-> Ready(d.state), result |-> "ok", applied |-> d.applied,
               discarded |-> << >>]
         ELSE [self |-> Preparing(d.buffer), result |-> "err",
               applied |-> << >>, discarded |-> d.applied]
    ELSE [self |-> self, result |-> "ok", applied |-> << >>,
          discarded |-> << >>]

\* The updater new() returns; no call was made on it.
NoCall == [op |-> "new", arg |-> None, result |-> "ok", discarded |-> << >>]
NoHist == [inited |-> FALSE, snapshot |-> None, applied |-> << >>]

UpdaterCreated ==
    /\ updater = OrderBookUpdaterNew
    /\ ob_call = NoCall
    /\ ob_hist = NoHist

-----------------------------------------------------------------------------
(* Initial state: RateLimiterBuilder::start() has returned *)

\* held: the buckets whose MutexGuard (`bucket`, line 109 and 144) the
\* dispatcher holds.
Idle == [ pc |-> "recv", cur |-> NoReq, order |-> << >>, idx |-> 0,
          timeout |-> 0, deadline |-> 0, held |-> {} ]

\* What timeout() saw of one bucket: the branch it took (kind), the reading
\* it last took, the window start and amount it compared (after
\* reset_outdated), whether reset_outdated rolled the window and the amount
\* before that, and the wait the bucket contributed (-1: not computed).
NoObs == [ kind |-> "none", now |-> 0, start |-> 0, amount |-> 0,
           rolled |-> FALSE, before |-> 0, wait |-> -1 ]

\* The state start() returns in, before any of the n requests is built.
Started(registry, n, maxTime) ==
    /\ clock = 0
    /\ horizon = [last |-> maxTime, step |-> maxTime]
    /\ buckets = registry
    /\ queue = << >>
    /\ costs = [r \in 1..n |-> NoCosts]
    /\ task = [r \in 1..n |-> "new"]
    /\ reply = [r \in 1..n |-> "none"]
    /\ disp = Idle
    /\ submitted = << >>
    /\ started = << >>
    /\ answered = << >>
    /\ obs = [n2 \in CostNames |-> NoObs]
    /\ commits = [r \in 1..n |-> 0]
    /\ bucket_calls = << >>
    /\ cost_calls = [r \in 1..n |-> << >>]
    /\ meta = [r \in 1..n |-> << >>]
    /\ api_calls = [r \in 1..n |-> << >>]
    /\ UpdaterCreated

Init == Started(Registry, NReq, MaxTime)

\* The state in which n tasks have been built by send() and none polled:
\* `vectors` holds the assignments of cost vectors to the tasks; the clock
\* advances by at most maxStep from one reading to the next.
BuiltPaced(registry, vectors, n, maxTime, maxStep) ==
    /\ clock = 0
    /\ horizon = [last |-> maxTime, step |-> maxStep]
    /\ buckets = registry
    /\ queue = << >>
    /\ costs \in vectors
    /\ task = [r \in 1..n |-> "built"]
    /\ reply = [r \in 1..n |-> "none"]
    /\ disp = Idle
    /\ submitted = << >>
    /\ started = << >>
    /\ answered = << >>
    /\ obs = [n2 \in CostNames |-> NoObs]
    /\ commits = [r \in 1..n |-> 0]
    /\ bucket_calls = << >>
    /\ cost_calls = [r \in 1..n |-> << >>]
    /\ meta = [r \in 1..n |-> << >>]
    /\ api_calls = [r \in 1..n |-> << >>]
    /\ UpdaterCreated

\* The same with a clock that may advance by any amount between readings.
Built(registry, vectors, n, maxTime) ==
    BuiltPaced(registry, vectors, n, maxTime, maxTime)

-----------------------------------------------------------------------------
(* The clock *)

\* What a call of Instant::now() may return when the clock was last read
\* at `from` or is known to have reached it: Instant is monotonic.
ReadingsFrom(from) ==
    from..(IF from + horizon.step < horizon.last THEN from + horizon.step
                                                  ELSE horizon.last)

\* What the next call of Instant::now() may return.
Readings == ReadingsFrom(clock)

-----------------------------------------------------------------------------
(* The dispatcher: the task spawned by RateLimiter::recv *)

CurName == disp.order[disp.idx]
CurCost == costs[disp.cur][CurName]
CurBucket == buckets[CurName]

\* Mutant: the newest message is received first.
NextMessageNewest(q) == q[Len(q)]

\* line 86: rx.next() yields the oldest message of the channel.
NextMessage(q) == Head(q)
RestOfQueue(q) == Tail(q)

\* Mutant: the next message is received while the current one is slept on.
AtRecvOrAsleep == disp.pc \in {"recv", "sleep"}

\* line 86: the loop is at rx.next().await.
AtRecv == disp.pc = "recv"

\* Mutant: the reply reaches a receiver that was dropped.
RepliedToDropped(r, res) ==
    /\ reply' = [reply EXCEPT ![r] = res]
    /\ answered' = Append(answered, r)

\* line 97: task_tx.send(res); a send to a dropped receiver is ignored.
Replied(r, res) ==
    /\ reply' = IF task[r] = "waiting" THEN [reply EXCEPT ![r] = res] ELSE reply
    /\ answered' = Append(answered, r)

\* The next entry of `for (name, cost) in costs`.
\* Mutant: the guard of the bucket outlives the iteration.
NextEntryKeepsGuard(pc, timeout) ==
    [disp EXCEPT !.pc = pc, !.idx = disp.idx + 1, !.timeout = timeout]

\* The end of one iteration of `for (name, cost) in costs`: the guard
\* `bucket` goes out of scope.
NextEntry(pc, timeout) ==
    [disp EXCEPT !.pc = pc, !.idx = disp.idx + 1, !.timeout = timeout,
                 !.held = {}]

\* line 86-89: receive the next message and enter timeout().
Recv ==
    /\ AtRecv
    /\ queue # << >>
    /\ LET r == NextMessage(queue) IN
        /\ \E ord \in Perms(DOMAIN costs[r]) :
              disp' = [ pc |-> "t_lookup", cur |-> r, order |-> ord, idx |-> 1,
                        timeout |-> 0, deadline |-> 0, held |-> {} ]
        /\ queue' = RestOfQueue(queue)
        /\ started' = Append(started, r)
    /\ obs' = [n \in CostNames |-> NoObs]
    /\ UNCHANGED <<horizon, calls, clock, buckets, costs, task, reply, submitted, answered, commits>>

\* Mutant: a bucket under its delay contributes the delay and is then
\* examined like any other bucket (no `continue` at line 120).
TLookupChecksDelayed ==
    /\ disp.pc = "t_lookup"
    /\ disp.idx <= Len(disp.order)
    /\ IF CurName \notin DOMAIN buckets
       THEN /\ Replied(disp.cur, "err")
            /\ disp' = Idle
            /\ UNCHANGED <<clock, obs>>
       ELSE \E now \in Readings :
            LET delay == DurationSince(CurBucket.delay, now) IN
            /\ clock' = now
            /\ IF delay # 0
               THEN /\ disp' = [disp EXCEPT !.pc = "t_reset",
                                            !.timeout = DelayTimeout(disp.timeout, delay),
                                            !.held = @ \cup {CurName}]
                    /\ obs' = [obs EXCEPT ![CurName] =
                                 [NoObs EXCEPT !.kind = "delay", !.now = now,
                                               !.wait = delay]]
               ELSE /\ disp' = [disp EXCEPT !.pc = "t_reset",
                                            !.held = @ \cup {CurName}]
                    /\ UNCHANGED obs
            /\ UNCHANGED <<reply, answered>>
    /\ UNCHANGED <<horizon, calls, buckets, queue, costs, task, submitted, started, commits>>

\* line 107-109 altered: an undefined name gets a default bucket instead of
\* an error.
TLookupCreatesBucket ==
    /\ disp.pc = "t_lookup"
    /\ disp.idx <= Len(disp.order)
    /\ IF CurName \notin DOMAIN buckets
       THEN /\ buckets' = [n \in DOMAIN buckets \cup {CurName} |->
                               IF n = CurName THEN Bucket(0, 0, 0) ELSE buckets[n]]
            /\ UNCHANGED <<clock, disp, obs, reply, answered>>
       ELSE \E now \in Readings :
            LET delay == DurationSince(CurBucket.delay, now) IN
            /\ clock' = now
            /\ IF delay # 0
               THEN /\ disp' = NextEntry("t_lookup", DelayTimeout(disp.timeout, delay))
                    /\ obs' = [obs EXCEPT ![CurName] =
                                 [NoObs EXCEPT !.kind = "delay", !.now = now,
                                               !.wait = delay]]
               ELSE /\ disp' = [disp EXCEPT !.pc = "t_reset",
                                            !.held = @ \cup {CurName}]
                    /\ UNCHANGED obs
            /\ UNCHANGED <<buckets, reply, answered>>
    /\ UNCHANGED <<horizon, calls, queue, costs, task, submitted, started, commits>>

\* Mutant: an undefined bucket is skipped instead of failing the message.
TLookupSkipsUndefined ==
    /\ disp.pc = "t_lookup"
    /\ disp.idx <= Len(disp.order)
    /\ IF CurName \notin DOMAIN buckets
       THEN /\ disp' = NextEntry("t_lookup", disp.timeout)
            /\ UNCHANGED clock
       ELSE \E now \in Readings :
            /\ clock' = now
            /\ disp' = [disp EXCEPT !.pc = "t_reset", !.held = @ \cup {CurName}]
    /\ UNCHANGED <<horizon, calls, buckets, queue, costs, task, reply,
                   submitted, started, answered, obs, commits>>

\* timeout(), line 108-121: resolve the bucket; an undefined name ends the
\* message with an error (line 111-114, `?` at line 89, reply at line 97);
\* a bucket still under delay sets the timeout and is skipped.
TLookup ==
    /\ disp.pc = "t_lookup"
    /\ disp.idx <= Len(disp.order)
    /\ IF CurName \notin DOMAIN buckets
       THEN /\ Replied(disp.cur, "err")
            /\ disp' = Idle
            /\ UNCHANGED <<clock, obs>>
       ELSE \E now \in Readings :
            LET delay == DurationSince(CurBucket.delay, now) IN
            /\ CurName \notin disp.held
            /\ clock' = now
            /\ IF delay # 0
               THEN /\ disp' = NextEntry("t_lookup", DelayTimeout(disp.timeout, delay))
                    /\ obs' = [obs EXCEPT ![CurName] =
                                 [NoObs EXCEPT !.kind = "delay", !.now = now,
                                               !.wait = delay]]
               ELSE /\ disp' = [disp EXCEPT !.pc = "t_reset",
                                            !.held = @ \cup {CurName}]
                    /\ UNCHANGED obs
            /\ UNCHANGED <<reply, answered>>
    /\ UNCHANGED <<horizon, calls, buckets, queue, costs, task, submitted, started, commits>>

\* timeout(), line 124-126, after reset_outdated: compare amount + cost with
\* the limit of bucket b.
TCheck(b, now, rolled, before) ==
    IF OverLimit(b, CurCost)
    THEN /\ disp' = [disp EXCEPT !.pc = "t_sub"]
         /\ obs' = [obs EXCEPT ![CurName] =
                      [ kind |-> "over", now |-> now, start |-> b.time_instant,
                        amount |-> b.amount, rolled |-> rolled, before |-> before,
                        wait |-> -1 ]]
    ELSE /\ disp' = NextEntry("t_lookup", disp.timeout)
         /\ obs' = [obs EXCEPT ![CurName] =
                      [ kind |-> "fits", now |-> now, start |-> b.time_instant,
                        amount |-> b.amount, rolled |-> rolled, before |-> before,
                        wait |-> 0 ]]

\* timeout(), line 123 (reset_outdated, line 197-198): read the clock and test
\* whether the window is outdated; if not, go on to line 124-126.
TReset ==
    /\ disp.pc = "t_reset"
    /\ \E now \in Readings :
        /\ clock' = now
        /\ IF Outdated(CurBucket, now)
           THEN /\ disp' = [disp EXCEPT !.pc = "t_roll"]
                /\ UNCHANGED obs
           ELSE TCheck(CurBucket, now, FALSE, CurBucket.amount)
    /\ UNCHANGED <<horizon, calls, buckets, queue, costs, task, reply,
                   submitted, started, answered, commits>>

\* reset_outdated, line 199-200: read the clock again and roll the window;
\* then line 124-126.
TRoll ==
    /\ disp.pc = "t_roll"
    /\ \E now \in Readings :
        /\ clock' = now
        /\ buckets' = [buckets EXCEPT ![CurName] = Rolled(CurBucket, now)]
        /\ TCheck(Rolled(CurBucket, now), now, TRUE, CurBucket.amount)
    /\ UNCHANGED <<horizon, calls, queue, costs, task, reply,
                   submitted, started, answered, commits>>

\* timeout(), line 127-132: read the clock, subtract the elapsed time from
\* the interval.  When elapsed > interval the subtraction panics: the
\* dispatcher task ends, dropping queue_rx and the task_tx it holds.
TSub ==
    /\ disp.pc = "t_sub"
    /\ \E now \in Readings :
        /\ clock' = now
        /\ IF DurationSince(now, CurBucket.time_instant) > CurBucket.interval
           THEN /\ disp' = [disp EXCEPT !.pc = "dead", !.held = {}]
                /\ UNCHANGED obs
           ELSE /\ disp' = NextEntry("t_lookup",
                              LimitTimeout(disp.timeout, BucketTimeout(CurBucket, now)))
                /\ obs' = [obs EXCEPT ![CurName].now = now,
                                       ![CurName].wait = BucketTimeout(CurBucket, now)]
    /\ UNCHANGED <<horizon, calls, buckets, queue, costs, task, reply,
                   submitted, started, answered, commits>>

\* line 136 and 89-93: timeout() returns; a non-zero timeout starts
\* sleep(timeout), whose deadline is the reading at that call plus the
\* timeout; a zero one goes straight to set_costs().
TimeoutDone ==
    /\ disp.pc = "t_lookup"
    /\ disp.idx > Len(disp.order)
    /\ IF disp.timeout # 0
       THEN \E now \in Readings :
              /\ clock' = now
              /\ disp' = [disp EXCEPT !.pc = "sleep", !.deadline = now + disp.timeout]
       ELSE /\ disp' = [disp EXCEPT !.pc = "s_reset", !.idx = 1]
            /\ UNCHANGED clock
    /\ UNCHANGED <<buckets, queue, costs, task, reply, hist>>

\* Mutant: the sleep is raced against the caller's receiver; once the Task
\* was dropped the message is given up without a commit.
WakeGivesUpAbandoned ==
    /\ disp.pc = "sleep"
    /\ \E now \in ReadingsFrom(IF clock > disp.deadline THEN clock ELSE disp.deadline) :
        /\ clock' = now
    /\ disp' = IF task[disp.cur] = "dropped"
               THEN Idle
               ELSE [disp EXCEPT !.pc = "s_reset", !.idx = 1]
    /\ UNCHANGED <<buckets, queue, costs, task, reply, hist>>

\* line 91: sleep(timeout) completes, not before its deadline.
Wake ==
    /\ disp.pc = "sleep"
    /\ \E now \in ReadingsFrom(IF clock > disp.deadline THEN clock ELSE disp.deadline) :
        /\ clock' = now
    /\ disp' = [disp EXCEPT !.pc = "s_reset", !.idx = 1]
    /\ UNCHANGED <<buckets, queue, costs, task, reply, hist>>

\* set_costs(), line 143-153 (reset_outdated, line 197-198): resolve the
\* bucket, read the clock; a window not outdated gets the cost added.
SReset ==
    /\ disp.pc = "s_reset"
    /\ disp.idx <= Len(disp.order)
    /\ CurName \in DOMAIN buckets
    /\ CurName \notin disp.held
    /\ \E now \in Readings :
        /\ clock' = now
        /\ IF Outdated(CurBucket, now)
           THEN /\ disp' = [disp EXCEPT !.pc = "s_roll", !.held = @ \cup {CurName}]
                /\ UNCHANGED <<buckets, commits>>
           ELSE /\ buckets' = [buckets EXCEPT ![CurName] = AddCost(CurBucket, CurCost)]
                /\ commits' = [commits EXCEPT ![disp.cur] = @ + 1]
                /\ disp' = NextEntry("s_reset", disp.timeout)
    /\ UNCHANGED <<horizon, calls, queue, costs, task, reply,
                   submitted, started, answered, obs>>

\* reset_outdated, line 199-200, then set_costs(), line 153.
SRoll ==
    /\ disp.pc = "s_roll"
    /\ \E now \in Readings :
        /\ clock' = now
        /\ buckets' = [buckets EXCEPT ![CurName] =
                          AddCost(Rolled(CurBucket, now), CurCost)]
    /\ commits' = [commits EXCEPT ![disp.cur] = @ + 1]
    /\ disp' = NextEntry("s_reset", disp.timeout)
    /\ UNCHANGED <<horizon, calls, queue, costs, task, reply,
                   submitted, started, answered, obs>>

\* line 94-97: set_costs() returned Ok; reply and go back to rx.next().
Reply ==
    /\ disp.pc = "s_reset"
    /\ disp.idx > Len(disp.order)
    /\ Replied(disp.cur, "ok")
    /\ disp' = Idle
    /\ UNCHANGED <<horizon, calls, clock, buckets, queue, costs, task,
                   submitted, started, obs, commits>>

-----------------------------------------------------------------------------
(* The callers: TaskBuilder and the Task future *)

\* TaskBuilder::cost() once or twice, then send(): the Task exists, unpolled.
Send(r) ==
    /\ task[r] = "new"
    /\ \A q \in Reqs : q < r => task[q] # "new"
    /\ \E cv \in CostVecs : costs' = [costs EXCEPT ![r] = cv]
    /\ task' = [task EXCEPT ![r] = "built"]
    /\ UNCHANGED <<clock, buckets, queue, reply, disp, hist>>

\* The Task has resolved: with the response, or with an error.
Resolved(r) == task[r] \in {"done", "rejected", "closed"}

\* The callers of tests::test_rate_limiter_delay: each task is awaited to
\* its end before the next one is polled.
InTurn(r) == \A q \in Reqs : q < r => Resolved(q)

\* Concurrent callers.  Requests are numbered in the order of their first
\* poll.
Concurrently(r) == \A q \in Reqs : q < r => task[q] \notin {"new", "built"}

\* Mutant: the first poll does not notice that the receiver is gone.
PollIgnoresClosed(r) ==
    /\ task[r] = "built"
    /\ task' = [task EXCEPT ![r] = "waiting"]
    /\ queue' = Append(queue, r)
    /\ submitted' = Append(submitted, r)
    /\ UNCHANGED <<horizon, calls, clock, buckets, costs, reply, disp,
                   started, answered, obs, commits>>

\* line 235-240: the first poll sends the message; the send fails when the
\* receiver is gone.
Poll(r) ==
    /\ task[r] = "built"
    /\ IF disp.pc = "dead"
       THEN /\ task' = [task EXCEPT ![r] = "closed"]
            /\ UNCHANGED <<queue, submitted>>
       ELSE /\ task' = [task EXCEPT ![r] = "waiting"]
            /\ queue' = Append(queue, r)
            /\ submitted' = Append(submitted, r)
    /\ UNCHANGED <<horizon, calls, clock, buckets, costs, reply, disp,
                   started, answered, obs, commits>>

Await(r) == Concurrently(r) /\ Poll(r)

AwaitInTurn(r) == InTurn(r) /\ Poll(r)

\* Mutant: an error reply is not propagated, the network call is made.
RecvReplyIgnoresError(r) ==
    /\ task[r] = "waiting"
    /\ reply[r] \in {"ok", "err"}
    /\ task' = [task EXCEPT ![r] = "network"]
    /\ UNCHANGED <<clock, buckets, queue, costs, reply, disp, hist>>

\* Mutant: a reply channel dropped without a reply lets the call proceed.
RecvReplyCanceledProceeds(r) ==
    /\ task[r] = "waiting"
    /\ \/ reply[r] = "ok" /\ task' = [task EXCEPT ![r] = "network"]
       \/ reply[r] = "err" /\ task' = [task EXCEPT ![r] = "rejected"]
       \/ reply[r] = "none" /\ disp.pc = "dead" /\ task' = [task EXCEPT ![r] = "network"]
    /\ UNCHANGED <<clock, buckets, queue, costs, reply, disp, hist>>

\* line 241-247: task_rx resolves: to the reply, or to Canceled when the
\* dispatcher dropped task_tx without sending.
\* Mutant: a task whose admission was refused polls its future again.
RecvReplyRetries(r) ==
    /\ task[r] = "waiting"
    /\ \/ reply[r] = "ok" /\ task' = [task EXCEPT ![r] = "network"]
       \/ reply[r] = "err" /\ task' = [task EXCEPT ![r] = "built"]
       \/ reply[r] = "none" /\ disp.pc = "dead" /\ task' = [task EXCEPT ![r] = "closed"]
    /\ UNCHANGED <<clock, buckets, queue, costs, reply, disp, hist>>

RecvReply(r) ==
    /\ task[r] = "waiting"
    /\ \/ reply[r] = "ok" /\ task' = [task EXCEPT ![r] = "network"]
       \/ reply[r] = "err" /\ task' = [task EXCEPT ![r] = "rejected"]
       \/ reply[r] = "none" /\ disp.pc = "dead" /\ task' = [task EXCEPT ![r] = "closed"]
    /\ UNCHANGED <<clock, buckets, queue, costs, reply, disp, hist>>

\* line 249: req_builder.send() resolves.
Network(r) ==
    /\ task[r] = "network"
    /\ task' = [task EXCEPT ![r] = "done"]
    /\ UNCHANGED <<clock, buckets, queue, costs, reply, disp, hist>>

\* The caller drops the Task while it awaits admission: task_rx is dropped.
\* (A Task dropped before its first poll has sent nothing, and one dropped
\* during its network call has left the admission controller.)
Abandon(r) ==
    /\ task[r] = "waiting"
    /\ task' = [task EXCEPT ![r] = "dropped"]
    /\ UNCHANGED <<clock, buckets, queue, costs, reply, disp, hist>>

-----------------------------------------------------------------------------
(* Specification: any callers, concurrently *)

Next ==
    \/ Recv \/ TLookup \/ TReset \/ TRoll \/ TSub \/ TimeoutDone
    \/ Wake \/ SReset \/ SRoll \/ Reply
    \/ \E r \in Reqs : Send(r)
    \/ \E r \in Reqs : Await(r)
    \/ \E r \in Reqs : RecvReply(r)
    \/ \E r \in Reqs : Network(r)

Spec == Init /\ [][Next]_vars

(* Specification: NConc concurrent requests on one bucket, whose costs
   together exceed the limit by one unit *)

RECURSIVE SumOn(_, _, _)
\* The sum of the costs the tasks 1..n declare on bucket `name`.
SumOn(cvs, name, n) == IF n = 0 THEN 0 ELSE cvs[n][name] + SumOn(cvs, name, n - 1)

RegistryConc == ("A" :> Bucket(0, IntervalA, LimitConc))

VectorsConc ==
    { cvs \in [1..NConc -> { ("A" :> w) : w \in 1..LimitConc }] :
        SumOn(cvs, "A", NConc) = LimitConc + 1 }

InitConc == Built(RegistryConc, VectorsConc, NConc, MaxTime)

NextConc ==
    \/ Recv \/ TLookup \/ TReset \/ TRoll \/ TSub \/ TimeoutDone
    \/ Wake \/ SReset \/ SRoll \/ Reply
    \/ \E r \in Reqs : Await(r)
    \/ \E r \in Reqs : RecvReply(r)
    \/ \E r \in Reqs : Network(r)

SpecConc == InitConc /\ [][NextConc]_vars

(* Specification: the end-to-end scenario, requests awaited one after the
   other *)

RegistryE2E == ("A" :> Bucket(0, E2E.interval, E2E.limit))

InitE2E ==
    Built(RegistryE2E, {[r \in 1..E2E.requests |-> ("A" :> E2E.cost)]},
          E2E.requests, E2EHorizon)

NextInTurn ==
    \/ Recv \/ TLookup \/ TReset \/ TRoll \/ TSub \/ TimeoutDone
    \/ Wake \/ SReset \/ SRoll \/ Reply
    \/ \E r \in Reqs : AwaitInTurn(r)
    \/ \E r \in Reqs : RecvReply(r)
    \/ \E r \in Reqs : Network(r)

SpecE2E == InitE2E /\ [][NextInTurn]_vars

(* Specification: the delay scenario of tests::test_rate_limiter_delay *)

RegistryDelay == ("A" :> Bucket(TestDelay, TestInterval, TestLimit))

InitDelay ==
    Built(RegistryDelay, {[r \in 1..TestRequests |-> ("A" :> TestCost)]},
          TestRequests, DelayHorizon)

SpecDelay == InitDelay /\ [][NextInTurn]_vars

(* Specification: the scenario of tests::test_rate_limiter_queue, in seconds:
   two buckets, every request costs against both *)

QueueIntervalA == 1   \* line 316: interval(Duration::from_secs(1))
QueueLimitA == 1      \* line 317: limit(1)
QueueIntervalB == 10  \* line 322: interval(Duration::from_secs(10))
QueueLimitB == 2      \* line 323: limit(2)
QueueRequests == 8    \* line 328: for _i in 1..=8
QueueCost == 1        \* line 331-332: cost(.., 1)
QueueSeconds == 30    \* line 340: >= Duration::from_secs(30)
QueueHorizon == 31    \* the largest reading of the clock, in seconds
QueueStep == 1        \* the most the clock advances between two readings

RegistryQueue ==
    ("A" :> Bucket(0, QueueIntervalA, QueueLimitA)) @@
    ("B" :> Bucket(0, QueueIntervalB, QueueLimitB))

InitQueue ==
    BuiltPaced(RegistryQueue,
               {[r \in 1..QueueRequests |-> ("A" :> QueueCost) @@ ("B" :> QueueCost)]},
               QueueRequests, QueueHorizon, QueueStep)

SpecQueue == InitQueue /\ [][NextInTurn]_vars

(* Specification: one TaskBuilder followed call by call: cost() any number
   of times, send(), metadata() on the unpolled Task, then its first poll *)

MaxCalls == 3         \* cost() calls on one TaskBuilder
MaxMeta == 2          \* metadata() calls on one Task

\* Mutant: cost() adds the weight to the one already declared.
CostCallAccumulates(m, key, weight) ==
    [n \in DOMAIN m \cup {key} |->
        IF n = key THEN (IF key \in DOMAIN m THEN m[key] + weight ELSE weight)
                   ELSE m[n]]

\* line 218-224: costs.entry(key).and_modify(|e| *e = weight).or_insert(weight)
CostCall(m, key, weight) ==
    [n \in DOMAIN m \cup {key} |-> IF n = key THEN weight ELSE m[n]]

\* line 271-275: TaskMetadata { costs: self.costs.clone() }
MetadataOf(m) == [costs |-> [n \in DOMAIN m |-> m[n]]]

\* RateLimiter::task() has made the builder (line 76-80); one cost() call.
Cost(r) ==
    /\ task[r] = "new"
    /\ Len(cost_calls[r]) < MaxCalls
    /\ \E key \in CostNames, weight \in 0..MaxCost :
          /\ costs' = [costs EXCEPT ![r] = CostCall(@, key, weight)]
          /\ cost_calls' = [cost_calls EXCEPT ![r] = Append(@, <<key, weight>>)]
    /\ UNCHANGED <<clock, horizon, buckets, queue, task, reply, disp,
                   submitted, started, answered, obs, commits, bucket_calls, meta,
                   api_calls, book>>

\* line 226-256: send() clones the costs into the future, which it boxes
\* without polling it, and moves them into the Task.
SendTask(r) ==
    /\ task[r] = "new"
    /\ task' = [task EXCEPT ![r] = "built"]
    /\ costs' = [costs EXCEPT ![r] = [n \in DOMAIN @ |-> @[n]]]
    /\ UNCHANGED <<clock, buckets, queue, reply, disp, hist>>

\* Mutant: metadata() polls the future.
MetadataPolls(r) ==
    /\ task[r] = "built"
    /\ Len(meta[r]) < MaxMeta
    /\ meta' = [meta EXCEPT ![r] = Append(@, MetadataOf(costs[r]))]
    /\ queue' = Append(queue, r)
    /\ UNCHANGED <<clock, horizon, buckets, costs, task, reply, disp,
                   submitted, started, answered, obs, commits,
                   bucket_calls, cost_calls, api_calls, book>>

\* line 271-275: metadata() on a Task that was not polled yet.
Metadata(r) ==
    /\ task[r] = "built"
    /\ Len(meta[r]) < MaxMeta
    /\ meta' = [meta EXCEPT ![r] = Append(@, MetadataOf(costs[r]))]
    /\ UNCHANGED <<clock, horizon, buckets, queue, costs, task, reply, disp,
                   submitted, started, answered, obs, commits,
                   bucket_calls, cost_calls, api_calls, book>>

InitTask == Started(Registry, 1, MaxTime)

NextTask ==
    \/ \E r \in Reqs : Cost(r)
    \/ \E r \in Reqs : SendTask(r)
    \/ \E r \in Reqs : Metadata(r)
    \/ \E r \in Reqs : Await(r)

SpecTask == InitTask /\ [][NextTask]_vars

(* Specification: a registry whose bucket A was built with
   RateLimiterBucket::default() alone *)

\* line 168-178: time_instant and delay are the time of construction,
\* interval, limit and amount are zero.
DefaultBucket == Bucket(0, 0, 0)

RegistryDefault ==
    ("A" :> DefaultBucket) @@ ("B" :> Bucket(DelayB, IntervalB, LimitB))

InitDefault == Started(RegistryDefault, NReq, MaxTime)

SpecDefault == InitDefault /\ [][Next]_vars

(* Specification: tasks built by SpotApi::depth *)

\* market_data.rs line 10: the name of the bucket every market-data call
\* charges.
RL_WEIGHT_PER_MINUTE == "RL_WEIGHT_PER_MINUTE"

\* market_data.rs line 396-405: the discriminants of OrderBookLimit.
OrderBookLimit == {5, 10, 20, 50, 100, 500, 1000, 5000}

\* Mutant: N100 is matched by the arm of N500.
OrderBookLimitWeightN100Heavy(self) ==
    CASE self \in {5, 10, 20, 50} -> 1
      [] self \in {100, 500} -> 5
      [] self = 1000 -> 10
      [] self = 5000 -> 50

\* market_data.rs line 523-533: OrderBookLimit::weight.
OrderBookLimitWeight(self) ==
    CASE self \in {5, 10, 20, 50, 100} -> 1
      [] self = 500 -> 5
      [] self = 1000 -> 10
      [] self = 5000 -> 50

\* market_data.rs line 613:
\* limit.as_ref().map(|f| f.weight()).unwrap_or(1)
DepthWeight(limit) ==
    IF limit = None THEN 1 ELSE OrderBookLimitWeight(limit[1])

\* market_data.rs line 607-637: task(..) starts from no costs (rate_limiter.rs
\* line 78), cost() declares the weight, send() builds the Task.
Depth(r) ==
    /\ task[r] = "new"
    /\ \E limit \in OptionOf(OrderBookLimit) :
          LET weight == DepthWeight(limit) IN
          /\ costs' = [costs EXCEPT ![r] =
                          CostCall(NoCosts, RL_WEIGHT_PER_MINUTE, weight)]
          /\ cost_calls' = [cost_calls EXCEPT ![r] =
                               Append(@, <<RL_WEIGHT_PER_MINUTE, weight>>)]
          /\ api_calls' = [api_calls EXCEPT ![r] = <<"depth", limit>>]
    /\ task' = [task EXCEPT ![r] = "built"]
    /\ UNCHANGED <<clock, horizon, buckets, queue, reply, disp, submitted,
                   started, answered, obs, commits, bucket_calls, meta,
                   book>>

RegistryDepth == (RL_WEIGHT_PER_MINUTE :> Bucket(0, IntervalA, LimitA))

InitDepth == Started(RegistryDepth, NReq, MaxTime)

NextDepth ==
    \/ \E r \in Reqs : Depth(r)
    \/ \E r \in Reqs : Metadata(r)
    \/ \E r \in Reqs : Await(r)

SpecDepth == InitDepth /\ [][NextDepth]_vars

(* Specification: the builder, from RateLimiterBuilder::default() to start() *)

MaxBucketCalls == 3   \* bucket() calls on one RateLimiterBuilder

\* line 168-194: RateLimiterBucket::default().delay(d).interval(i).limit(l)
\* built at the reading now.
BucketAt(now, delay, interval, limit) ==
    [ time_instant |-> now, delay |-> now + delay, interval |-> interval,
      limit |-> limit, amount |-> 0 ]

BuilderConfigs ==
    { <<0, IntervalA, LimitA>>, <<DelayB, IntervalB, LimitB>>, <<0, 0, 0>> }

BuilderNames == {"A", "B"}

\* line 31-34: #[derive(Default)] gives an empty map.
NoBuckets == [n \in {} |-> DefaultBucket]

\* line 38-43: Occupied overwrites the whole value, Vacant inserts it.
BucketCallMerges(m, key, bucket) ==
    [n \in DOMAIN m \cup {key} |->
        IF n = key
        THEN IF key \in DOMAIN m
             THEN [bucket EXCEPT !.delay = m[key].delay]
             ELSE bucket
        ELSE m[n]]

BucketCall(m, key, bucket) ==
    [n \in DOMAIN m \cup {key} |->
        IF n = key
        THEN IF key \in DOMAIN m THEN bucket ELSE bucket
        ELSE m[n]]

InitBuilder ==
    /\ clock = 0
    /\ horizon = [last |-> MaxTime, step |-> MaxTime]
    /\ buckets = NoBuckets
    /\ queue = << >>
    /\ costs = [r \in {} |-> NoCosts]
    /\ task = [r \in {} |-> "new"]
    /\ reply = [r \in {} |-> "none"]
    /\ disp = [Idle EXCEPT !.pc = "builder"]
    /\ submitted = << >>
    /\ started = << >>
    /\ answered = << >>
    /\ obs = [n \in CostNames |-> NoObs]
    /\ commits = [r \in {} |-> 0]
    /\ bucket_calls = << >>
    /\ cost_calls = [r \in {} |-> << >>]
    /\ meta = [r \in {} |-> << >>]
    /\ api_calls = [r \in {} |-> << >>]
    /\ UpdaterCreated

\* line 37-45, with the bucket built in the argument (line 168-194).
BuilderBucket ==
    /\ disp.pc = "builder"
    /\ Len(bucket_calls) < MaxBucketCalls
    /\ \E key \in BuilderNames, cfg \in BuilderConfigs, now \in Readings :
          LET bucket == BucketAt(now, cfg[1], cfg[2], cfg[3]) IN
          /\ clock' = now
          /\ buckets' = BucketCall(buckets, key, bucket)
          /\ bucket_calls' = Append(bucket_calls, <<key, bucket>>)
    /\ UNCHANGED <<horizon, queue, costs, task, reply, disp, submitted,
                   started, answered, obs, commits, cost_calls, meta,
                   api_calls, book>>

\* line 47-61: the map is rebuilt entry by entry, the queue is created and
\* the dispatcher is spawned at rx.next().
Start ==
    /\ disp.pc = "builder"
    /\ buckets' = [k \in DOMAIN buckets |-> buckets[k]]
    /\ queue' = << >>
    /\ disp' = Idle
    /\ UNCHANGED <<clock, horizon, costs, task, reply, submitted, started,
                   answered, obs, commits, calls>>

NextBuilder == BuilderBucket \/ Start

SpecBuilder == InitBuilder /\ [][NextBuilder]_vars

(* Specification: a registry whose buckets are both under an activation
   delay, of different lengths *)

DelayLong == 4        \* activation delay of bucket A in RegistryDelays

RegistryDelays ==
    ("A" :> Bucket(DelayLong, IntervalA, LimitA)) @@
    ("B" :> Bucket(DelayB, IntervalB, LimitB))

InitDelays == Started(RegistryDelays, NReq, MaxTime)

SpecDelays == InitDelays /\ [][Next]_vars

(* Specification: the dispatcher task is polled whenever it can take a step
   (it is spawned on the runtime, line 85), and so is a caller's task whose
   reply has arrived *)

Fairness ==
    /\ WF_vars(Recv) /\ WF_vars(TLookup) /\ WF_vars(TReset) /\ WF_vars(TRoll)
    /\ WF_vars(TSub) /\ WF_vars(TimeoutDone) /\ WF_vars(Wake)
    /\ WF_vars(SReset) /\ WF_vars(SRoll) /\ WF_vars(Reply)
    /\ \A r \in 1..NReq : WF_vars(RecvReply(r))

SpecLive == Init /\ [][Next]_vars /\ Fairness

(* Specification: one OrderBookUpdater, fed diff events and snapshots in
   any order *)

\* push_diff(upd) on the updater.
PushDiff(upd) ==
    /\ Len(updater.buffer) < MaxBuffer
    /\ Len(ob_hist.applied) < MaxApplied
    /\ LET r == push_diff(updater, upd) IN
        /\ updater' = r.self
        /\ ob_call' = [op |-> "push_diff", arg |-> upd, result |-> r.result,
                        discarded |-> << >>]
        /\ ob_hist' = [ob_hist EXCEPT !.applied = @ \o r.applied]
    /\ UNCHANGED limiter

\* init(snapshot) on the updater.
InitBook(snapshot) ==
    /\ LET r == init(updater, snapshot) IN
        /\ updater' = r.self
        /\ ob_call' = [op |-> "init", arg |-> snapshot, result |-> r.result,
                        discarded |-> r.discarded]
        /\ ob_hist' =
              IF r.result # "ok" THEN ob_hist
              ELSE IF updater.tag = "Ready"
                   THEN [ob_hist EXCEPT !.inited = TRUE]
                   ELSE [inited |-> TRUE,
                         snapshot |-> Some(snapshot.last_update_id),
                         applied |-> r.applied]
    /\ UNCHANGED limiter

NextBook ==
    \/ \E upd \in Diffs : PushDiff(upd)
    \/ \E snapshot \in Snapshots : InitBook(snapshot)

SpecBook == Init /\ [][NextBook]_vars

(* Specification: callers that may also give up while awaiting admission *)

\* The tasks were built, each with a cost on A or on an undefined bucket.
VectorsCancel ==
    [1..NReq -> { ("A" :> w) : w \in 1..MaxCost } \cup { ("X" :> 1) }]

InitCancel == Built(Registry, VectorsCancel, NReq, MaxTime)

NextCancel ==
    \/ Recv \/ TLookup \/ TReset \/ TRoll \/ TSub \/ TimeoutDone
    \/ Wake \/ SReset \/ SRoll \/ Reply
    \/ \E r \in Reqs : Await(r)
    \/ \E r \in Reqs : RecvReply(r)
    \/ \E r \in Reqs : Network(r)
    \/ \E r \in Reqs : Abandon(r)

SpecCancel == InitCancel /\ [][NextCancel]_vars

-----------------------------------------------------------------------------
(* Properties *)

\* The requests whose cost vector names a bucket the registry does not hold.
HasUndefined(r) == \E n \in DOMAIN costs[r] : n \notin DOMAIN buckets

\* The dispatcher is past timeout() for the current message.
Committing == disp.pc \in {"s_reset", "s_roll"}

\* C1: admission decisions are applied in the order the messages were
\* enqueued.  The dispatcher receives messages in the order of submission and
\* replies in the order it received them; at most one message is between
\* its receipt and its reply, and it is the one the dispatcher works on, so
\* the wait computation of a message starts only when every message
\* enqueued before it has been replied to; a success reply comes after the
\* whole cost vector was committed; a message not yet received has no
\* commit and no reply.
C1_FifoOrder ==
    /\ IsPrefix(started, submitted)
    /\ IsPrefix(answered, started)
    /\ Len(started) <= Len(answered) + 1
    /\ Len(started) = Len(answered) + 1 =>
          /\ disp.cur = started[Len(started)]
          /\ disp.pc # "recv"
    /\ \A r \in Reqs :
          /\ reply[r] = "ok" => commits[r] = Cardinality(DOMAIN costs[r])
          /\ ~InSeq(r, started) => commits[r] = 0 /\ reply[r] = "none"
          /\ reply[r] # "none" => InSeq(r, answered)

\* Witness of C1: the second message is in the queue while the cost of the
\* first one is being committed.
C1_Witness ==
    /\ submitted = <<1, 2>>
    /\ queue = <<2>>
    /\ disp.cur = 1
    /\ Committing
    /\ commits[1] > 0

\* C6: head-of-line blocking.  While the dispatcher sleeps for a request,
\* that request is the only one received and not replied to, and every
\* message in the queue is untouched: not received, nothing committed for
\* it, no reply sent.
C6_HeadOfLine ==
    disp.pc = "sleep" =>
        /\ Len(started) = Len(answered) + 1
        /\ started[Len(started)] = disp.cur
        /\ reply[disp.cur] = "none" /\ commits[disp.cur] = 0
        /\ \A i \in 1..Len(queue) :
              /\ ~InSeq(queue[i], started)
              /\ commits[queue[i]] = 0
              /\ reply[queue[i]] = "none"

\* Witness of C6: a message arrives while the dispatcher sleeps.
C6_Witness ==
    /\ disp.pc = "sleep"
    /\ queue # << >>
    /\ clock < disp.deadline

\* C2: no overshoot under concurrency (SpecConc: the costs of the requests
\* exceed the limit by one unit in total).  In every interleaving the
\* amount of the bucket exceeds the limit by no more than the cost of one
\* request; a request that saw spare capacity (amount + cost within the
\* limit) leaves the amount within the limit when it has committed; and
\* the amount is past the limit only through a request that saw none.
C2_NoOvershoot ==
    LET b == buckets["A"] IN
    /\ b.amount <= b.limit + MaxOf({ costs[r]["A"] : r \in Reqs })
    /\ (disp.cur # NoReq /\ obs["A"].kind = "fits" /\ commits[disp.cur] = 1) =>
          b.amount <= b.limit
    /\ b.amount > b.limit => obs["A"].kind = "over"

\* Witness of C2: all requests were enqueued before the first was received,
\* and the one that found no capacity left was made to wait and then
\* committed.
C2_Witness ==
    /\ \A r \in Reqs : commits[r] = 1 /\ reply[r] = "ok"
    /\ obs["A"].kind = "over"
    /\ obs["A"].amount = LimitConc
    /\ obs["A"].wait > 0
    /\ buckets["A"].amount <= LimitConc

\* What the bucket named n contributes to the wait of the current message,
\* computed from what timeout() read: activation time - now under delay,
\* interval - elapsed over the limit, 0 otherwise.
Contribution(n) ==
    CASE obs[n].kind = "delay" -> buckets[n].delay - obs[n].now
      [] obs[n].kind = "over" -> buckets[n].interval - (obs[n].now - obs[n].start)
      [] OTHER -> 0

\* timeout() has returned Ok for the current message.
TimeoutReturned ==
    \/ disp.pc = "t_lookup" /\ disp.idx > Len(disp.order)
    \/ disp.pc = "sleep"

\* C3 (the claim as stated): the wait of a request is the maximum of the
\* waits its buckets contribute, whatever the order of iteration.
C3_MaxOfContributions ==
    TimeoutReturned =>
        disp.timeout = MaxOf({ Contribution(n) : n \in DOMAIN costs[disp.cur] })

\* C4: a request naming a bucket of the registry and an undefined one fails
\* entirely: it is never answered with success, its network call is never
\* made, and no step taken while the dispatcher works on it raises the
\* amount of any bucket.
C4_AtomicFailure ==
    /\ [](\A r \in Reqs : HasUndefined(r) =>
            reply[r] # "ok" /\ task[r] \notin {"network", "done"})
    /\ [][(disp.cur # NoReq /\ HasUndefined(disp.cur)) =>
            \A n \in DOMAIN buckets : buckets'[n].amount <= buckets[n].amount]_vars

\* Witness of C4: the request {A, X} was rejected after bucket A had been
\* examined by timeout().
C4_Witness ==
    \E r \in Reqs :
        /\ DOMAIN costs[r] = {"A", "X"}
        /\ task[r] = "rejected"
        /\ obs["A"].kind = "fits"
        /\ InSeq(r, answered)
        /\ started[Len(started)] = r

\* C5: a request with an undefined bucket name gets an error: the
\* dispatcher answers it with an error out of timeout(), without sleeping
\* and without entering set_costs(), it receives the message once only,
\* and the caller does not make the network call.
C5_UndefinedBucket ==
    \A r \in Reqs : HasUndefined(r) =>
        /\ task[r] \notin {"network", "done"}
        /\ reply[r] \in {"none", "err"}
        /\ InSeq(r, answered) => reply[r] = "err"
        /\ disp.cur = r => disp.pc \notin {"sleep", "s_reset", "s_roll"}
        /\ disp.cur = r => ~TimeoutReturned
        /\ commits[r] = 0
        /\ Cardinality({ i \in 1..Len(started) : started[i] = r }) <= 1

\* Witness of C5: a request naming only an undefined bucket was rejected.
C5_Witness ==
    \E r \in Reqs :
        /\ DOMAIN costs[r] = {"X"}
        /\ reply[r] = "err"
        /\ task[r] = "rejected"

\* C7: window reset.  When timeout() finds the window of a bucket outdated
\* it rolls it, the amount it then compares is 0, and a cost of at most the
\* limit gets no wait from that bucket; a request on that bucket alone is
\* not slept on.  More generally a cost that fits the amount left in the
\* window gets no wait.
C7_WindowReset ==
    \A n \in DOMAIN buckets :
        (disp.cur # NoReq /\ obs[n].kind \in {"over", "fits"}) =>
            LET cost == costs[disp.cur][n] IN
            /\ obs[n].rolled => obs[n].amount = 0 /\ obs[n].start <= obs[n].now
            /\ (obs[n].rolled /\ cost <= buckets[n].limit) =>
                  /\ obs[n].kind = "fits"
                  /\ DOMAIN costs[disp.cur] = {n} =>
                        disp.timeout = 0 /\ disp.pc # "sleep"
            /\ obs[n].amount + cost <= buckets[n].limit => obs[n].wait = 0

\* Witness of C7: the limit was used up, the window is outdated, and a
\* further cost equal to the limit is being committed without a wait.
C7_Witness ==
    /\ Committing
    /\ costs[disp.cur] = ("A" :> LimitA)
    /\ obs["A"].rolled
    /\ obs["A"].before = LimitA
    /\ obs["A"].kind = "fits"
    /\ disp.timeout = 0
    /\ disp.deadline = 0

\* C8: for a bucket past its activation time whose window is not outdated,
\* timeout() takes the over-limit branch exactly when amount + cost exceeds
\* the limit; the wait it computes is then interval - (now - window start),
\* and it is the time the dispatcher sleeps when the request names that
\* bucket alone; a cost that fits gets no wait from the bucket.
C8_RemainingWindow ==
    \A n \in DOMAIN buckets :
        (disp.cur # NoReq /\ obs[n].kind \in {"over", "fits"}) =>
            LET cost == costs[disp.cur][n]
                alone == DOMAIN costs[disp.cur] = {n}
            IN
            /\ obs[n].kind = "over" <=> obs[n].amount + cost > buckets[n].limit
            /\ (obs[n].kind = "over" /\ obs[n].wait # -1) =>
                  /\ obs[n].now - obs[n].start <= buckets[n].interval
                  /\ obs[n].wait = buckets[n].interval - (obs[n].now - obs[n].start)
                  /\ (alone /\ disp.pc # "dead") => disp.timeout = obs[n].wait
                  /\ (alone /\ disp.pc = "sleep") =>
                        disp.deadline >= obs[n].start + buckets[n].interval
            /\ obs[n].kind = "fits" =>
                  /\ obs[n].wait = 0
                  /\ alone => disp.timeout = 0 /\ disp.pc # "sleep"

\* Witness of C8: the dispatcher sleeps for the rest of the window of A.
C8_Witness ==
    /\ disp.pc = "sleep"
    /\ DOMAIN costs[disp.cur] = {"A"}
    /\ obs["A"].kind = "over"
    /\ ~obs["A"].rolled
    /\ obs["A"].now > obs["A"].start
    /\ disp.timeout = IntervalA - (obs["A"].now - obs["A"].start)
    /\ disp.timeout > 0

\* C9 (the claim as stated): when the 8 requests of the end-to-end scenario
\* have resolved, each has succeeded and at least 7 seconds have passed
\* since the first was submitted (at reading 0).
C9_EndToEnd ==
    (\A r \in Reqs : Resolved(r)) =>
        /\ \A r \in Reqs : task[r] = "done"
        /\ clock >= E2E.seconds

\* C10 (the claim as stated): in the delay scenario the first request is
\* not committed before the activation delay has passed, the second not
\* before a further window has passed, and when both have resolved both
\* have succeeded and at least 20 seconds have passed.
C10_DelayScenario ==
    /\ commits[1] > 0 => clock >= TestDelay
    /\ commits[2] > 0 => clock >= TestDelay + TestInterval
    /\ (\A r \in Reqs : Resolved(r)) =>
          /\ \A r \in Reqs : task[r] = "done"
          /\ clock >= TestSeconds


\* C11 (the outcome the claim states): in the scenario of
\* test_rate_limiter_queue, when the 8 requests have resolved each has
\* succeeded and at least 30 seconds have passed since the first was
\* submitted (reading 0).
C11_QueueScenario ==
    (\A r \in Reqs : Resolved(r)) =>
        /\ \A r \in Reqs : task[r] = "done"
        /\ clock >= QueueSeconds


\* The cost vector a sequence of cost() calls declares: each name that was
\* passed, with the weight of the last call that passed it.
LastWrites(cs) ==
    LET names == { cs[i][1] : i \in DOMAIN cs }
        last(n) == CHOOSE i \in DOMAIN cs :
                      /\ cs[i][1] = n
                      /\ \A j \in DOMAIN cs : cs[j][1] = n => j <= i
    IN [n \in names |-> cs[last(n)][2]]

\* C12: metadata without side effect.  A Task that was built and not polled
\* has no message in the channel, no reply, no commit and no network call,
\* whatever the number of metadata() calls made on it; every value
\* metadata() returned holds the cost vector the cost() calls had declared
\* when send() was called; and a metadata() call changes nothing but what
\* it returns.
C12_MetadataPure ==
    /\ [](\A r \in Reqs :
            /\ \A i \in DOMAIN meta[r] :
                  meta[r][i] = [costs |-> LastWrites(cost_calls[r])]
            /\ task[r] = "built" =>
                  /\ ~InSeq(r, submitted) /\ ~InSeq(r, queue)
                  /\ reply[r] = "none" /\ commits[r] = 0
                  /\ buckets = Registry)
    /\ [][meta' # meta =>
            UNCHANGED <<clock, buckets, queue, costs, task, reply, disp,
                        submitted, started, answered, commits, cost_calls>>]_vars

\* Witness of C12: metadata() was called MaxMeta times on a Task declaring
\* two costs, and the Task is still unpolled.
C12_Witness ==
    \E r \in Reqs :
        /\ task[r] = "built"
        /\ Len(meta[r]) = MaxMeta
        /\ Cardinality(DOMAIN costs[r]) = 2
        /\ queue = << >>

\* C18: cost() overwrites and never accumulates.  After any sequence of
\* cost() calls on a TaskBuilder, and in the Task send() makes of it, the
\* cost vector holds exactly the names that were passed, each with the
\* weight of the last call that passed it.
C18_CostOverwrites ==
    \A r \in Reqs :
        /\ DOMAIN costs[r] = { cost_calls[r][i][1] : i \in DOMAIN cost_calls[r] }
        /\ costs[r] = LastWrites(cost_calls[r])

\* Witness of C18: a name was passed twice with different non-zero weights,
\* another name in between, and the Task was built.
C18_Witness ==
    \E r \in Reqs :
        LET cs == cost_calls[r] IN
        /\ task[r] = "built"
        /\ Len(cs) = 3
        /\ cs[1][1] = cs[3][1] /\ cs[2][1] # cs[1][1]
        /\ cs[1][2] > 0 /\ cs[3][2] > 0 /\ cs[1][2] # cs[3][2]

\* C13: the network call of a task starts only after the dispatcher has
\* committed the whole cost vector of that task and replied success; a task
\* whose admission was rejected, or whose channel was severed, has resolved
\* and never makes the call.
C13_NetworkAfterAdmission ==
    /\ [](\A r \in Reqs :
            /\ task[r] \in {"network", "done"} =>
                  /\ reply[r] = "ok"
                  /\ InSeq(r, answered)
                  /\ commits[r] = Cardinality(DOMAIN costs[r])
            /\ task[r] \in {"rejected", "closed"} => reply[r] # "ok")
    /\ [][\A r \in Reqs :
            /\ task[r] \in {"rejected", "closed"} => task'[r] = task[r]
            /\ (task'[r] = "network" /\ task[r] # "network") =>
                  task[r] = "waiting" /\ reply[r] = "ok"]_vars

\* Witness of C13: one task made its call after both its costs were
\* committed, another resolved without a call when the channel was severed.
C13_Witness ==
    \E r, q \in Reqs :
        /\ task[r] = "done"
        /\ commits[r] = 2
        /\ task[q] = "closed"
        /\ commits[q] = 0

\* C14 (the claim as stated): after the dispatcher has replied an error to
\* a request naming an undefined bucket, every later request with valid
\* bucket names is still served: none of them finds the channel severed.
C14_ErrorNotFatal ==
    \A q, r \in Reqs :
        (/\ q < r
         /\ HasUndefined(q) /\ reply[q] = "err"
         /\ task[r] \notin {"new", "built"} /\ ~HasUndefined(r))
        => task[r] # "closed"

\* C15: channel severed.  Once the dispatcher task is gone, a task that is
\* awaited, and a task whose reply channel holds no reply, can always take
\* its next step, and that step resolves it to the channel-closed error; a
\* task resolved that way has had no reply, stays resolved and never makes
\* its network call.
C15_ChannelSevered ==
    /\ [](\A r \in Reqs :
            /\ task[r] = "closed" => reply[r] = "none" /\ disp.pc = "dead"
            /\ (disp.pc = "dead" /\ task[r] = "built" /\ Concurrently(r)) =>
                  ENABLED Await(r)
            /\ (disp.pc = "dead" /\ task[r] = "waiting" /\ reply[r] = "none") =>
                  ENABLED RecvReply(r))
    /\ [][\A r \in Reqs :
            /\ (/\ disp.pc = "dead" /\ task'[r] # task[r]
                /\ \/ task[r] = "built"
                   \/ task[r] = "waiting" /\ reply[r] = "none")
               => task'[r] = "closed"
            /\ task[r] = "closed" => task'[r] = "closed"]_vars

\* Witness of C15: the dispatcher task ended while one task awaited its
\* reply, and another task was awaited after that; both resolved to the
\* channel-closed error.
C15_Witness ==
    \E r, q \in Reqs :
        /\ task[r] = "closed" /\ InSeq(r, submitted)
        /\ task[q] = "closed" /\ ~InSeq(q, submitted)

\* C16: reply to an abandoned Task (SpecCancel).  The step in which the
\* dispatcher replies to a request whose Task was dropped delivers nothing,
\* changes no bucket and takes the dispatcher back to rx.next(); there the
\* next queued message, if any, can be received.  A dropped Task never gets
\* a reply after it was dropped and makes no network call.
C16_ReplyToAbandoned ==
    /\ [][\A r \in Reqs :
            (task[r] = "dropped" /\ answered' = Append(answered, r)) =>
                /\ reply' = reply
                /\ buckets' = buckets
                /\ disp'.pc = "recv"
                /\ queue' = queue]_vars
    /\ [][\A r \in Reqs : task[r] = "dropped" =>
            task'[r] = "dropped" /\ reply'[r] = reply[r]]_vars
    /\ []((disp.pc = "recv" /\ queue # << >>) => ENABLED Recv)

\* Witness of C16: the first request was abandoned before the dispatcher
\* replied to it; the dispatcher replied all the same and then admitted the
\* second request.
C16_Witness ==
    /\ task[1] = "dropped" /\ reply[1] = "none"
    /\ answered = <<1, 2>>
    /\ reply[2] = "ok"

\* C17 (the claim as stated): a bucket with the default configuration
\* rejects every request with a non-zero cost against it: the dispatcher
\* answers such a request with an error, never admits it, and the amount of
\* the bucket stays 0.
C17_DefaultRejects ==
    /\ buckets["A"].amount = 0
    /\ \A r \in Reqs :
          ("A" \in DOMAIN costs[r] /\ costs[r]["A"] > 0) =>
              /\ reply[r] # "ok"
              /\ InSeq(r, answered) => reply[r] = "err" \/ task[r] = "rejected"
              /\ disp.cur = r => disp.pc \notin {"dead", "sleep", "s_reset", "s_roll"}

\* C19: bucket(name, config) is last-write-wins: after any sequence of
\* bucket() calls, the map of the builder, and the registry start() makes of
\* it, holds for each name exactly the bucket of the last call for that
\* name, every field of it, and holds no other name.
C19_LastWriteWins ==
    /\ buckets = LastWrites(bucket_calls)
    /\ DOMAIN buckets = { bucket_calls[i][1] : i \in DOMAIN bucket_calls }

\* The same name was given three different buckets and start() has run.
C19_Witness ==
    /\ disp.pc = "recv"
    /\ Len(bucket_calls) = 3
    /\ \A i \in 1..3 : bucket_calls[i][1] = "A"
    /\ bucket_calls[1][2].delay # bucket_calls[3][2].delay
    /\ bucket_calls[2][2].interval # bucket_calls[3][2].interval
    /\ bucket_calls[1][2].time_instant # bucket_calls[3][2].time_instant
    /\ buckets["A"] = bucket_calls[3][2]

\* C20: after start() the set of bucket names is frozen: whatever requests
\* are sent, requests naming undefined buckets included, the registry holds
\* exactly the names it held when start() returned, and no step changes the
\* delay, the interval or the limit of a bucket.
C20_RegistryFrozen ==
    /\ [](DOMAIN buckets = DOMAIN Registry)
    /\ [][\A n \in DOMAIN Registry :
            /\ buckets'[n].delay = buckets[n].delay
            /\ buckets'[n].interval = buckets[n].interval
            /\ buckets'[n].limit = buckets[n].limit]_vars

\* A request naming the undefined bucket X was answered with an error and a
\* request on a defined bucket was admitted and committed.
C20_Witness ==
    /\ \E r \in Reqs : "X" \in DOMAIN costs[r] /\ reply[r] = "err"
    /\ \E r \in Reqs : DOMAIN costs[r] = {"A"} /\ reply[r] = "ok"
                        /\ buckets["A"].amount > 0
    /\ DOMAIN buckets = {"A", "B"}

\* The weights the documentation of depth() gives for each limit.
DocumentedDepthWeight ==
    (None :> 1) @@ (Some(5) :> 1) @@ (Some(10) :> 1) @@ (Some(20) :> 1) @@
    (Some(50) :> 1) @@ (Some(100) :> 1) @@ (Some(500) :> 5) @@
    (Some(1000) :> 10) @@ (Some(5000) :> 50)

\* C21: the task returned by depth(symbol, limit) declares exactly one
\* cost, on the weight-per-minute bucket, equal to the documented weight of
\* the limit: 1 for 5, 10, 20, 50 and 100, 5 for 500, 10 for 1000, 50 for
\* 5000, and 1 when no limit is given; metadata() and the admission message
\* carry that cost.
C21_DepthWeight ==
    \A r \in Reqs :
        api_calls[r] # << >> =>
            /\ api_calls[r][1] = "depth"
            /\ api_calls[r][2] \in DOMAIN DocumentedDepthWeight
            /\ DOMAIN costs[r] = {RL_WEIGHT_PER_MINUTE}
            /\ costs[r][RL_WEIGHT_PER_MINUTE] = DocumentedDepthWeight[api_calls[r][2]]
            /\ \A i \in DOMAIN meta[r] :
                  meta[r][i].costs = costs[r]

\* One task was built for 5000 levels and its message is on the queue,
\* another was built without a limit.
C21_Witness ==
    /\ api_calls[1] = <<"depth", Some(5000)>>
    /\ costs[1] = (RL_WEIGHT_PER_MINUTE :> 50)
    /\ task[1] = "waiting"
    /\ api_calls[2] = <<"depth", None>>
    /\ costs[2] = (RL_WEIGHT_PER_MINUTE :> 1)
    /\ Len(meta[2]) > 0

\* C22 (the claim as stated): a request whose cost vector names an
\* undefined bucket fails before any bucket is touched: while the dispatcher
\* handles such a message, whatever the order in which it walks the cost
\* vector, no step changes the time_instant or the amount of any bucket.
C22_FailsBeforeTouch ==
    [][(/\ disp.cur # NoReq
        /\ \E n \in DOMAIN costs[disp.cur] : n \notin DOMAIN buckets)
          => \A n \in DOMAIN buckets :
                /\ buckets'[n].time_instant = buckets[n].time_instant
                /\ buckets'[n].amount = buckets[n].amount]_vars

\* C23 (the claim as stated): in every state reached after a request has
\* been admitted and its costs committed, the amount of every bucket is at
\* most its limit; amount + cost exceeds the limit only in what timeout()
\* sees for a request that is then made to wait, never in the bucket itself.
C23_AmountWithinLimit ==
    \A n \in DOMAIN buckets :
        (\E r \in Reqs : commits[r] > 0) => buckets[n].amount <= buckets[n].limit

\* C24 (the claim as stated): no cost is committed to a bucket before the
\* activation time of that bucket, also when the cost vector names several
\* buckets that are still under their delay: a bucket whose amount was
\* raised is past its activation time.
C24_CommitAfterActivation ==
    /\ \A n \in DOMAIN buckets :
          buckets[n].amount > 0 => clock >= buckets[n].delay
    /\ \A r \in Reqs :
          commits[r] > 0 =>
              \A n \in DOMAIN costs[r] : clock >= buckets[n].delay

\* The commit pass of the current message is complete.
CommitPassDone ==
    /\ disp.cur # NoReq
    /\ disp.pc = "s_reset"
    /\ disp.idx > Len(disp.order)

\* C25: a bucket that is under its activation delay when timeout() meets it
\* contributes activation time - now and nothing else: it is taken for
\* delayed exactly when the last reading made for it is before its
\* activation time, its window is not rolled and its limit is not compared
\* in that pass; and when the wait is over set_costs commits the cost to it
\* whatever its amount and limit are.
C25_DelaySkipsLimit ==
    \A n \in DOMAIN buckets :
        (disp.cur # NoReq /\ obs[n].kind # "none") =>
            /\ obs[n].kind = "delay" <=> obs[n].now < buckets[n].delay
            /\ obs[n].kind = "delay" =>
                  /\ obs[n].wait = buckets[n].delay - obs[n].now
                  /\ ~obs[n].rolled
                  /\ disp.pc \in {"sleep", "s_reset", "s_roll"}
                        => disp.timeout > 0
                  /\ CommitPassDone =>
                        /\ commits[disp.cur] = Len(disp.order)
                        /\ buckets[n].amount >= costs[disp.cur][n]

\* A cost above the limit was declared on a bucket under its delay and has
\* been committed to it after the wait.
C25_Witness ==
    /\ CommitPassDone
    /\ obs["A"].kind = "delay"
    /\ DOMAIN costs[disp.cur] = {"A"}
    /\ costs[disp.cur]["A"] > buckets["A"].limit
    /\ buckets["A"].amount = costs[disp.cur]["A"]
    /\ clock >= buckets["A"].delay

\* Every bucket but the one the dispatcher is at keeps its window.
OthersKeepWindow(n) ==
    \A m \in DOMAIN buckets \ {n} :
        /\ buckets'[m].time_instant = buckets[m].time_instant
        /\ buckets'[m].amount = buckets[m].amount

\* C26: windows are fixed.  Whenever the dispatcher examines a bucket, in
\* the wait pass (a bucket past its activation time) and in the commit pass,
\* the window rolls exactly when now - window start > interval; rolling sets
\* the amount to 0 and the window start to the reading made then; otherwise
\* amount and window start are left as they are (the commit pass then adds
\* the cost).  No other step, of the dispatcher or of a caller, changes a
\* window.
C26_FixedWindows ==
    [][LET n == disp.order[disp.idx]
           b == buckets[n]
           examines == /\ disp.pc \in {"t_reset", "s_reset"}
                       /\ disp.idx <= Len(disp.order)
                       /\ disp' # disp
           rolls == disp.pc \in {"t_roll", "s_roll"} /\ disp' # disp
           cost == IF disp.pc \in {"s_reset", "s_roll"}
                   THEN costs[disp.cur][n] ELSE 0
       IN
       /\ examines =>
             /\ OthersKeepWindow(n)
             /\ IF clock' - b.time_instant > b.interval
                THEN /\ disp'.pc = (IF disp.pc = "t_reset" THEN "t_roll" ELSE "s_roll")
                     /\ buckets' = buckets
                ELSE /\ disp'.pc \notin {"t_roll", "s_roll"}
                     /\ buckets'[n].time_instant = b.time_instant
                     /\ buckets'[n].amount = b.amount + cost
       /\ rolls =>
             /\ OthersKeepWindow(n)
             /\ clock' - b.time_instant > b.interval
             /\ buckets'[n].time_instant = clock'
             /\ buckets'[n].amount = 0 + cost
       /\ ~(examines \/ rolls) =>
             \A m \in DOMAIN buckets :
                 /\ buckets'[m].time_instant = buckets[m].time_instant
                 /\ buckets'[m].amount = buckets[m].amount]_vars

\* The wait pass rolled a window that had an amount, the commit pass found
\* the new window current and added the cost to it.
C26_Witness ==
    /\ CommitPassDone
    /\ obs["A"].kind = "fits" /\ obs["A"].rolled
    /\ obs["A"].before > 0 /\ obs["A"].amount = 0
    /\ buckets["A"].time_instant = obs["A"].start
    /\ buckets["A"].time_instant > 0
    /\ buckets["A"].amount = costs[disp.cur]["A"]

\* timeout() has returned Ok for the current message.
WaitPassSucceeded ==
    disp.cur # NoReq /\ disp.pc \in {"sleep", "s_reset", "s_roll"}

\* C27: the commit pass never fails once the wait pass has succeeded: every
\* name of the cost vector is then a bucket of the registry, and the request
\* is answered with success.  For every (bucket, cost) the pass rolls the
\* window if it is outdated and then raises the amount by exactly cost, once
\* per bucket; the amount and the window start of every bucket the cost
\* vector does not name are unchanged while the request is handled.
C27_CommitPass ==
    /\ [](WaitPassSucceeded =>
             /\ DOMAIN costs[disp.cur] \subseteq DOMAIN buckets
             /\ commits[disp.cur] <= Len(disp.order)
             /\ CommitPassDone => commits[disp.cur] = Cardinality(DOMAIN costs[disp.cur]))
    /\ [][(WaitPassSucceeded /\ disp' # disp) =>
             LET r == disp.cur
                 n == disp.order[disp.idx]
             IN
             /\ disp'.pc \in {"s_reset", "s_roll", "recv"}
             /\ disp'.pc = "recv" =>
                   /\ CommitPassDone
                   /\ answered' = Append(answered, r)
                   /\ task[r] # "dropped" => reply'[r] = "ok"
             /\ commits'[r] # commits[r] =>
                   /\ commits'[r] = commits[r] + 1
                   /\ disp'.idx = disp.idx + 1
                   /\ buckets'[n].amount =
                         (IF disp.pc = "s_roll" THEN 0 ELSE buckets[n].amount)
                            + costs[r][n]
                   /\ buckets'[n].time_instant =
                         (IF disp.pc = "s_roll" THEN clock'
                          ELSE buckets[n].time_instant)
             /\ commits'[r] = commits[r] => buckets' = buckets]_vars
    /\ [][disp.cur # NoReq =>
             \A m \in DOMAIN buckets \ DOMAIN costs[disp.cur] :
                 buckets'[m] = buckets[m]]_vars

\* Both buckets of a cost vector were committed, A on top of an earlier
\* amount and B in a window that was rolled.
C27_Witness ==
    /\ CommitPassDone
    /\ DOMAIN costs[disp.cur] = {"A", "B"}
    /\ commits[disp.cur] = 2
    /\ buckets["A"].amount > costs[disp.cur]["A"]
    /\ buckets["B"].amount = costs[disp.cur]["B"]
    /\ buckets["B"].time_instant > 0

\* The dispatcher is about to lock the bucket of the current entry
\* (`bucket.lock().await`, line 110 and 145).
AtLock ==
    /\ disp.pc \in {"t_lookup", "s_reset"}
    /\ disp.idx >= 1 /\ disp.idx <= Len(disp.order)
    /\ disp.order[disp.idx] \in DOMAIN buckets

\* C28: the dispatcher holds at most one bucket lock at a time, the lock of
\* the bucket it is examining; each lock is released before the next bucket
\* of the cost vector is locked, so the lock it asks for is always free; and
\* it holds none while it waits for a message, sleeps, replies, or after it
\* has ended.  Callers hold no bucket locks: no step of theirs reads or
\* changes a bucket.
C28_OneLockAtATime ==
    /\ Cardinality(disp.held) <= 1
    /\ disp.held # {} =>
          /\ disp.pc \in {"t_reset", "t_roll", "t_sub", "s_roll"}
          /\ disp.held = {disp.order[disp.idx]}
          /\ disp.held \subseteq DOMAIN buckets
    /\ disp.pc \in {"t_reset", "t_roll", "t_sub", "s_roll"} => disp.held # {}
    /\ AtLock => disp.order[disp.idx] \notin disp.held
    /\ disp.pc \in {"recv", "sleep", "dead"} => disp.held = {}
    /\ (disp.pc = "s_reset" /\ disp.idx > Len(disp.order)) => disp.held = {}

\* The dispatcher holds the lock of the second bucket of a cost vector,
\* after it has examined the first.
C28_Witness ==
    /\ Len(disp.order) = 2
    /\ disp.idx = 2
    /\ disp.held = {disp.order[2]}
    /\ disp.pc = "s_roll"
    /\ commits[disp.cur] = 1

\* Time keeps advancing: no sleep of the dispatcher ends past the last
\* reading the clock of the run may return.
TimeAdvances == disp.pc = "sleep" => disp.deadline <= horizon.last

\* C29 (the claim as stated): provided time keeps advancing, every
\* admission message that reaches the queue of the running dispatcher is
\* eventually answered by it, with success or with an error, however many
\* messages are queued ahead of it.
C29_EventuallyAnswered ==
    []TimeAdvances =>
        \A r \in 1..NReq : InSeq(r, submitted) ~> InSeq(r, answered)

\* How many times x occurs in the sequence s.
Count(x, s) == Cardinality({ i \in DOMAIN s : s[i] = x })

\* C30: nothing is retried and a Task is single-use: over its whole life a
\* task puts at most one admission message on the queue, the dispatcher
\* receives it at most once and replies to it at most once, each bucket of
\* its cost vector is committed at most once, and not at all when the
\* admission fails; a task that has resolved has no message left with the
\* running dispatcher.
C30_SingleUse ==
    \A r \in Reqs :
        /\ Count(r, submitted) <= 1
        /\ Count(r, started) <= 1
        /\ Count(r, answered) <= 1
        /\ Count(r, queue) + Count(r, started) = Count(r, submitted)
        /\ Count(r, answered) <= Count(r, started)
        /\ commits[r] <= Cardinality(DOMAIN costs[r])
        /\ reply[r] = "err" => commits[r] = 0
        /\ (Resolved(r) /\ disp.pc # "dead") =>
              /\ Count(r, queue) = 0
              /\ disp.cur # r
        /\ task[r] = "done" => commits[r] = Cardinality(DOMAIN costs[r])

\* One task was refused and one was admitted and has made its network
\* call; each was enqueued and answered once.
C30_Witness ==
    /\ task[1] = "rejected" /\ reply[1] = "err"
    /\ task[2] = "done" /\ commits[2] = 2
    /\ submitted = <<1, 2>> /\ answered = <<1, 2>>
    /\ queue = << >>

\* C31: an admission decision cannot be cancelled (SpecCancel).  Every step
\* the dispatcher takes for a message whose Task was dropped is the step it
\* takes for a waiting caller: a wait that timeout() returned is slept for
\* (the deadline is the reading plus the wait, and the sleep ends at or
\* after the deadline in the commit pass), and the dispatcher goes back to
\* rx.next() for that message only after set_costs() raised the amount of
\* every bucket of the cost vector, unless the vector names an undefined
\* bucket.
C31_NoCancellation ==
    [][\A r \in Reqs :
        (task[r] = "dropped" /\ disp.cur = r /\ disp' # disp) =>
            /\ (disp.pc = "t_lookup" /\ disp.idx > Len(disp.order)
                    /\ disp.timeout # 0) =>
                  /\ disp'.pc = "sleep"
                  /\ disp'.deadline = clock' + disp.timeout
            /\ disp.pc = "sleep" =>
                  /\ disp'.pc = "s_reset" /\ disp'.cur = r
                  /\ clock' >= disp.deadline
            /\ disp'.pc = "recv" =>
                  \/ HasUndefined(r)
                  \/ commits'[r] = Cardinality(DOMAIN costs[r])]_vars

\* Witness of C31: both callers gave up; the dispatcher slept for the second
\* request all the same and has committed its cost.
C31_Witness ==
    /\ task[1] = "dropped" /\ task[2] = "dropped"
    /\ answered = <<1>>
    /\ disp.cur = 2 /\ disp.pc = "s_reset" /\ disp.idx > Len(disp.order)
    /\ disp.deadline > 0
    /\ commits[2] = Cardinality(DOMAIN costs[2])
    /\ ~HasUndefined(2)

\* The book of a Ready updater.
TheBook == updater.state[1]

\* The last call was `op` and returned `result`.
Called(op, result) == ob_call.op = op /\ ob_call.result = result

\* C32: old diffs are dropped while the state is dirty (SpecBook).  The
\* state of a Ready updater is dirty exactly when no diff was applied since
\* the snapshot, and its last_update_id is then the snapshot's.  A
\* push_diff() of a diff whose final_update_id is at most that id returns
\* Ok and leaves last_update_id, dirty, asks and bids as they were; an
\* init() whose buffered diffs are all that old returns Ok with the book of
\* the snapshot alone.
C32_DropsOld ==
    /\ [](updater.tag = "Ready" =>
            /\ TheBook.dirty <=> ob_hist.applied = << >>
            /\ TheBook.dirty =>
                  TheBook.last_update_id = ob_hist.snapshot[1])
    /\ [][(/\ updater.tag = "Ready" /\ TheBook.dirty
           /\ ob_call'.op = "push_diff"
           /\ ob_call'.arg.final_update_id <= ob_hist.snapshot[1]) =>
              /\ ob_call'.result = "ok"
              /\ updater' = updater]_vars
    /\ [][(/\ updater.tag = "Preparing"
           /\ ob_call'.op = "init"
           /\ \A i \in DOMAIN updater.buffer :
                 updater.buffer[i].final_update_id
                     <= ob_call'.arg.last_update_id) =>
              /\ ob_call'.result = "ok"
              /\ updater' = Ready(OrderBookStateNew(ob_call'.arg))]_vars

\* Witness of C32: a diff that ends at the snapshot's id and carries changes
\* was pushed to a dirty book and dropped.
C32_Witness ==
    /\ updater.tag = "Ready" /\ TheBook.dirty
    /\ Called("push_diff", "ok")
    /\ ob_call.arg.final_update_id = ob_hist.snapshot[1]
    /\ ob_call.arg.asks # << >>
    /\ DOMAIN TheBook.asks # {}

\* The diffs applied since the snapshot form a chain: the first one spans
\* the id after the snapshot's, each later one starts right after the one
\* before it ended.
ChainFrom(snapshot_id, applied) ==
    /\ applied # << >> =>
          /\ applied[1][1] <= snapshot_id + 1
          /\ snapshot_id + 1 <= applied[1][2]
    /\ \A i \in 2..Len(applied) : applied[i][1] = applied[i - 1][2] + 1

\* The diff would break the chain of the Ready updater if it were applied.
BreaksChain(upd) ==
    ~ChainFrom(ob_hist.snapshot[1],
               Append(ob_hist.applied,
                      <<upd.first_update_id, upd.final_update_id>>))

\* C33 (the claim as stated): the applied diffs form a gap-free chain, and a
\* diff that breaks either rule of the chain is rejected with an error.
C33_GapFreeChain ==
    /\ [](updater.tag = "Ready" =>
            ChainFrom(ob_hist.snapshot[1], ob_hist.applied))
    /\ [][(/\ updater.tag = "Ready"
           /\ ob_call'.op = "push_diff"
           /\ BreaksChain(ob_call'.arg)) =>
              ob_call'.result = "err"]_vars

\* C33 (amended): the applied diffs form a gap-free chain, and a diff that
\* breaks either rule of the chain is never applied: it is rejected with an
\* error, except that a diff which ends at or before the snapshot's
\* last_update_id is dropped with Ok as long as no diff was applied.
C33_GapFreeOrDropped ==
    /\ [](updater.tag = "Ready" =>
            ChainFrom(ob_hist.snapshot[1], ob_hist.applied))
    /\ [][(/\ updater.tag = "Ready"
           /\ ob_call'.op = "push_diff"
           /\ BreaksChain(ob_call'.arg)) =>
              /\ updater' = updater
              /\ ob_hist'.applied = ob_hist.applied
              /\ ob_call'.result = "ok" <=>
                    /\ ob_hist.applied = << >>
                    /\ ob_call'.arg.final_update_id <= ob_hist.snapshot[1]]_vars

\* Witness of C33: two diffs were applied, the first spanning the id after
\* the snapshot's, and a third one that left a gap was rejected.
C33_Witness ==
    /\ updater.tag = "Ready"
    /\ Len(ob_hist.applied) = 2
    /\ ob_hist.applied[1][1] < ob_hist.applied[1][2]
    /\ Called("push_diff", "err")
    /\ ob_call.arg.first_update_id > TheBook.last_update_id + 1

\* C34 (the claim as stated): the wait computation never subtracts an
\* elapsed time larger than the interval.  Whenever the dispatcher is at the
\* subtraction of line 128, the reading of line 127 is at most one interval
\* after the window start of the bucket, and the dispatcher does not end
\* there.
C34_ElapsedWithinInterval ==
    [][(disp.pc = "t_sub" /\ disp' # disp) =>
          /\ DurationSince(clock', CurBucket.time_instant) <= CurBucket.interval
          /\ disp'.pc # "dead"]_vars

\* C35: admission never changes the configuration of a bucket.  Whatever
\* requests were sent, admitted, delayed or refused, and also after the
\* dispatcher ended, every bucket has the interval, the limit and the
\* activation time (delay) that start() returned it with; amount and
\* window start (time_instant) are the only fields that differ.
C35_ConfigFixed ==
    \A n \in DOMAIN buckets :
        /\ n \in DOMAIN Registry
        /\ buckets[n].interval = Registry[n].interval
        /\ buckets[n].limit = Registry[n].limit
        /\ buckets[n].delay = Registry[n].delay
        /\ [buckets[n] EXCEPT !.amount = 0, !.time_instant = 0]
              = [Registry[n] EXCEPT !.amount = 0, !.time_instant = 0]

\* Witness of C35: both windows were rolled and both amounts raised, bucket B
\* after its activation time.
C35_Witness ==
    /\ \A n \in DOMAIN Registry :
          /\ buckets[n].amount > 0
          /\ buckets[n].time_instant > 0
    /\ buckets["B"].delay = Registry["B"].delay
    /\ buckets["B"].time_instant > buckets["B"].delay
    /\ \E r \in Reqs : reply[r] = "ok"

\* C36: a rejected diff leaves the book as it was (SpecBook).  When
\* push_diff() on a Ready updater returns an error, last_update_id, dirty,
\* asks and bids are what they were before the call, and so a diff that
\* starts right after the last_update_id of before the call is applied by
\* the next call.
C36_ErrorKeepsBook ==
    [][(/\ updater.tag = "Ready"
        /\ ob_call'.op = "push_diff"
        /\ ob_call'.result = "err") =>
           /\ updater'.tag = "Ready"
           /\ updater'.state[1].last_update_id = TheBook.last_update_id
           /\ updater'.state[1].dirty = TheBook.dirty
           /\ updater'.state[1].asks = TheBook.asks
           /\ updater'.state[1].bids = TheBook.bids
           /\ \A upd \in Diffs :
                 (/\ upd.first_update_id = TheBook.last_update_id + 1
                  /\ upd.final_update_id >= upd.first_update_id) =>
                     update(updater'.state[1], upd).applied # << >>]_vars

\* Witness of C36: a dirty book with an ask level rejected a diff that starts
\* after the next id; a correctly numbered diff can still be applied.
C36_Witness ==
    /\ updater.tag = "Ready" /\ TheBook.dirty
    /\ Called("push_diff", "err")
    /\ ob_call.arg.first_update_id > TheBook.last_update_id + 1
    /\ DOMAIN TheBook.asks # {}
    /\ \E upd \in Diffs : update(TheBook, upd).applied # << >>

\* C37: the updater moves only from Preparing to Ready, and only through an
\* init() that returned Ok (SpecBook).  state() returns a book exactly when
\* some init() has returned Ok; a Ready updater stays Ready whatever is
\* called on it, also when push_diff() returns an error; and push_diff() on
\* a Preparing updater returns Ok and appends the diff to the buffer, doing
\* nothing else.
C37_PreparingToReady ==
    /\ [](state(updater) # None <=> ob_hist.inited)
    /\ [][updater.tag = "Ready" => updater'.tag = "Ready"]_vars
    /\ [][(updater.tag = "Preparing" /\ updater'.tag = "Ready") =>
              /\ ob_call'.op = "init"
              /\ ob_call'.result = "ok"]_vars
    /\ [][(updater.tag = "Preparing" /\ ob_call'.op = "push_diff") =>
              /\ ob_call'.result = "ok"
              /\ updater' = Preparing(Append(updater.buffer, ob_call'.arg))
              /\ ob_hist' = ob_hist]_vars

\* Witness of C37: an init() replayed a buffered diff, and the Ready updater
\* then rejected a diff and is Ready still.
C37_Witness ==
    /\ state(updater) # None
    /\ ob_hist.inited
    /\ ~TheBook.dirty
    /\ Len(ob_hist.applied) = 1
    /\ Called("push_diff", "err")

\* C38: init() on a Ready updater is ignored (SpecBook).  It returns Ok,
\* and the updater holds the book it held before the call: last_update_id,
\* dirty, asks and bids are unchanged, whatever the new snapshot holds.
C38_InitOnReady ==
    [][(updater.tag = "Ready" /\ ob_call'.op = "init") =>
          /\ ob_call'.result = "ok"
          /\ state(updater') = state(updater)
          /\ updater' = updater]_vars

\* Witness of C38: a Ready updater that has applied a diff was given a
\* second snapshot, with another id and other asks than the book has.
C38_Witness ==
    /\ updater.tag = "Ready"
    /\ Called("init", "ok")
    /\ ob_hist.applied # << >>
    /\ ob_call.arg.last_update_id # ob_hist.snapshot[1]
    /\ ob_call.arg.last_update_id # TheBook.last_update_id
    /\ Collect(ob_call.arg.asks) # TheBook.asks

\* C39: a failed init() leaves an empty Preparing updater (SpecBook).  When
\* init() returns an error the updater was Preparing and is Preparing still,
\* state() returns no book, the buffer is empty and nothing of the book the
\* call had built is kept: a later init() with any snapshot yields the book
\* of that snapshot alone, none of the earlier diffs being replayed.
C39_FailedInit ==
    [][(ob_call'.op = "init" /\ ob_call'.result = "err") =>
          /\ updater.tag = "Preparing"
          /\ updater'.tag = "Preparing"
          /\ state(updater') = None
          /\ updater'.buffer = << >>
          /\ ob_hist' = ob_hist
          /\ \A snapshot \in Snapshots :
                LET later == init(updater', snapshot) IN
                /\ later.result = "ok"
                /\ later.applied = << >>
                /\ later.self = Ready(OrderBookStateNew(snapshot))]_vars

\* Witness of C39: the first buffered diff was applied to the new book, the
\* second was rejected; the updater is Preparing with an empty buffer.
C39_Witness ==
    /\ updater = Preparing(<< >>)
    /\ Called("init", "err")
    /\ Len(ob_call.discarded) = 1
    /\ ~ob_hist.inited

\* push_diff() of each diff in turn; accepted when every call returned Ok.
RECURSIVE PushAll(_, _)
PushAll(self, diffs) ==
    IF diffs = << >> THEN [self |-> self, accepted |-> TRUE]
    ELSE LET r == push_diff(self, Head(diffs))
             rest == PushAll(r.self, Tail(diffs))
         IN [self |-> rest.self,
             accepted |-> r.result = "ok" /\ rest.accepted]

\* init(snapshot) on a new updater, then the diffs pushed one by one.
InitThenPush(snapshot, diffs) ==
    PushAll(init(OrderBookUpdaterNew, snapshot).self, diffs)

\* C40: buffering is transparent (SpecBook).  When init(snapshot) is called
\* on a Preparing updater that buffered some diffs, it returns Ok exactly
\* when a new updater given init(snapshot) first accepts every one of these
\* diffs pushed in the same order, and the two updaters then hold the same
\* book: last_update_id, asks and bids are equal.
C40_BufferingTransparent ==
    [][(updater.tag = "Preparing" /\ ob_call'.op = "init") =>
          LET eager == InitThenPush(ob_call'.arg, updater.buffer) IN
          /\ eager.accepted <=> ob_call'.result = "ok"
          /\ eager.accepted =>
                LET lazy == updater'.state[1]
                    book2 == eager.self.state[1]
                IN /\ updater'.tag = "Ready" /\ eager.self.tag = "Ready"
                   /\ lazy.last_update_id = book2.last_update_id
                   /\ lazy.asks = book2.asks
                   /\ lazy.bids = book2.bids]_vars

\* Witness of C40: two diffs were buffered and init() applied both, the
\* first starting at or before the id of the snapshot; asks and bids are
\* not those of the snapshot.
C40_Witness ==
    /\ updater.tag = "Ready"
    /\ Called("init", "ok")
    /\ ob_call.arg.last_update_id = ob_hist.snapshot[1]
    /\ Len(ob_hist.applied) = 2
    /\ ob_hist.applied[1][1] <= ob_hist.snapshot[1]
    /\ TheBook.asks # Collect(ob_call.arg.asks)
    /\ TheBook.bids # Collect(ob_call.arg.bids)
====
